---------------------------- MODULE Spec2Model ----------------------------
(***************************************************************************)
(* A model of the lustre_exporter v2 collection path:                      *)
(*   - the scrape coalescing scheduler (runner / worker, sources/runner)   *)
(*   - the v2 procfs collection context (procfsV2Ctx) as far as the        *)
(*     scheduler observes it: collect / update / release.                  *)
(* Time is a discrete clock; one unit is one SHELF_LIFE second.            *)
(***************************************************************************)
EXTENDS Integers, Sequences, FiniteSets, TLC

(***************************************************************************)
(* Bounds of the model.                                                    *)
(***************************************************************************)
\* number of scrape requests (each one call of runner.Update)
NumRequests == 3
\* largest value of the --collector.v2.workers setting
MaxWorkerSetting == 2
\* collection passes (workers) started in one run
MaxPasses == 2
\* number of sources in the list handed to runner.Update
NumSources == 2
\* last value of the clock
MaxTime == 2
\* files a source's metric table resolves to in one pass
NumFiles == 2

\* var SHELF_LIFE = time.Second, in clock units
SHELF_LIFE == 1

Requests == 1..NumRequests
WorkerIds == 1..MaxPasses
Sources == 1..NumSources
\* the orders a range over the source map may take
Orders(l) == {o \in [1..Cardinality(l) -> l] :
                \A i, j \in 1..Cardinality(l) : o[i] = o[j] => i = j}
NoWorker == 0
NoTime == -1
Free == <<"free", 0>>

(***************************************************************************)
(* The collection context of one source, procfsV2Ctx.                      *)
(* A file is the metric it is read for and its text: a sequence of lines,  *)
(* each line the sequence of its whitespace-separated fields.              *)
(***************************************************************************)
\* strconv.ParseFloat: the numeric literals of the model and their values
ParseFloat(tok) ==
  CASE tok = "1" -> [err |-> FALSE, val |-> 1]
    [] tok = "2" -> [err |-> FALSE, val |-> 2]
    [] tok = "5" -> [err |-> FALSE, val |-> 5]
    [] tok = "141" -> [err |-> FALSE, val |-> 141]
    [] OTHER -> [err |-> TRUE, val |-> 0]

\* strings.Replace(size, ":", "", -1) on the size tokens of the model
StripColon(size) ==
  CASE size = "4K:" -> "4K"
    [] size = "1M:" -> "1M"
    [] OTHER -> size

\* convertToBytes: the size-name table; any other token is returned as is
convertToBytes(size) ==
  CASE size = "4K" -> "4096"
    [] size = "1M" -> "1048576"
    [] OTHER -> size

\* one sample: the source, the position of its file in the pass, the extra
\* labels (operation, size) and the value
Sample(s, i, op, size, v) == <<s, i, op, size, v>>

\* what a parser returns: an error or not, a panic (index out of range) or
\* not, and metrics_ as the appends left it
Ok(acc) == [err |-> FALSE, panic |-> FALSE, metrics_ |-> acc]
Err(acc) == [err |-> TRUE, panic |-> FALSE, metrics_ |-> acc]
Panic(acc) == [err |-> FALSE, panic |-> TRUE, metrics_ |-> acc]

\* parseFile, case single: strconv.ParseFloat(strings.TrimSpace(value))
parseSingle(s, f, i, acc) ==
  LET tok == IF Len(f.lines) = 1 /\ Len(f.lines[1]) = 1
             THEN f.lines[1][1] ELSE ""
      r == ParseFloat(tok)
  IN  IF r.err THEN Err(acc)
      ELSE Ok(Append(acc, Sample(s, i, "", "", r.val)))

\* parseBRWStats: the block from the first line that starts with the
\* heading of the metric to the first empty line after it (or the end)
RECURSIVE blockFrom(_, _)
blockFrom(lines, k) ==
  IF k > Len(lines) \/ Len(lines[k]) = 0 THEN <<>>
  ELSE <<lines[k]>> \o blockFrom(lines, k + 1)

brwBlock(f) ==
  LET starts == {k \in 1..Len(f.lines) :
                   Len(f.lines[k]) > 0 /\ f.lines[k][1] = f.heading}
  IN  IF starts = {} THEN <<>>
      ELSE blockFrom(f.lines, CHOOSE k \in starts : \A m \in starts : k <= m)

\* splitBRWStats: the rows after the heading
RECURSIVE splitBRWStats(_, _, _, _, _)
splitBRWStats(s, i, block, k, acc) ==
  IF k > Len(block) THEN Ok(acc)
  ELSE LET fields == block[k]
       IN  IF Len(fields) >= 6
           THEN LET read == ParseFloat(fields[2])
                    write == ParseFloat(fields[6])
                    size == convertToBytes(StripColon(fields[1]))
                IN  IF read.err \/ write.err THEN Err(acc)
                    ELSE splitBRWStats(s, i, block, k + 1,
                           acc \o <<Sample(s, i, "read", size, read.val),
                                    Sample(s, i, "write", size, write.val)>>)
           ELSE IF Len(fields) >= 1
           THEN IF Len(fields) < 2 THEN Panic(acc)
                ELSE LET rpcs == ParseFloat(fields[2])
                         size == convertToBytes(StripColon(fields[1]))
                     IN  IF rpcs.err THEN Err(acc)
                         ELSE splitBRWStats(s, i, block, k + 1,
                                Append(acc, Sample(s, i, "read", size, rpcs.val)))
           ELSE splitBRWStats(s, i, block, k + 1, acc)

\* a parseBRWStats that takes a file without the block for an error
parseBRWStatsNeedsBlock(s, f, i, acc) ==
  IF Len(brwBlock(f)) = 0 THEN Err(acc)
  ELSE splitBRWStats(s, i, brwBlock(f), 2, acc)

parseBRWStats(s, f, i, acc) ==
  LET block == brwBlock(f)
  IN  IF Len(block) = 0 THEN Ok(acc)
      ELSE splitBRWStats(s, i, block, 2, acc)

\* getStatsIOMetrics: the first line holding the field name of the metric
\* and a space after it, split on spaces; the value is the field at the
\* index of bytesMap
getStatsIOMetrics(s, f, i, acc) ==
  LET hits == {k \in 1..Len(f.lines) :
                 Len(f.lines[k]) > 1 /\ f.lines[k][1] = f.pattern}
  IN  IF hits = {} THEN Ok(acc)
      ELSE LET bytesSplit == f.lines[CHOOSE k \in hits : \A m \in hits : k <= m]
           IN  IF f.index + 1 > Len(bytesSplit) THEN Panic(acc)
               ELSE LET r == ParseFloat(bytesSplit[f.index + 1])
                    IN  IF r.err THEN Err(acc)
                        ELSE Ok(Append(acc, Sample(s, i, "", "", r.val)))

\* operationSlice: the operations getStatsOperationMetrics looks for, in
\* its order
operationSlice ==
  <<"open", "close", "getattr", "setattr", "getxattr", "setxattr", "statfs",
    "seek", "readdir", "truncate", "alloc_inode", "removexattr", "unlink",
    "inode_permission", "create", "get_info", "set_info_async", "connect",
    "ping">>

\* the regular expression pattern + " .*" is not anchored: it matches at
\* a field that ends with the pattern and has a space after it
EndsWith(tok, op) == tok = op \/ (tok = "ost_connect" /\ op = "connect")

\* regexCaptureString(operation.pattern + " .*", statsFile): the places
\* (line, field) of the matches, and the first of them in the file
OpHits(lines, op) ==
  {h \in UNION {{<<k, n>> : n \in 1..(Len(lines[k]) - 1)} :
                  k \in 1..Len(lines)} :
     EndsWith(lines[h[1]][h[2]], op)}
FirstHit(hits) ==
  CHOOSE h \in hits :
    \A g \in hits : h[1] < g[1] \/ (h[1] = g[1] /\ h[2] <= g[2])

\* bytesSplit[operation.index] of the match: the field after the pattern
FieldAfter(lines, h) == lines[h[1]][h[2] + 1]

\* getStatsOperationMetrics, one operation: no match goes on, a value
\* that is no number returns the error
appendOperation(s, i, op, r, acc) ==
  IF r.err THEN Err(acc)
  ELSE Ok(Append(acc, Sample(s, i, op, "", r.val)))

oneOperation(s, f, i, op, hits, acc) ==
  IF hits = {} THEN Ok(acc)
  ELSE appendOperation(s, i, op,
                       ParseFloat(FieldAfter(f.lines, FirstHit(hits))), acc)

\* getStatsOperationMetrics: the loop over operationSlice
RECURSIVE statsOperations(_, _, _, _, _)
afterOperation(s, f, i, j, r) ==
  IF r.err THEN r ELSE statsOperations(s, f, i, j + 1, r.metrics_)

statsOperations(s, f, i, j, acc) ==
  IF j > Len(operationSlice) THEN Ok(acc)
  ELSE afterOperation(s, f, i, j,
         oneOperation(s, f, i, operationSlice[j],
                      OpHits(f.lines, operationSlice[j]), acc))

getStatsOperationMetrics(s, f, i, acc) == statsOperations(s, f, i, 1, acc)

\* parseStatsFile: the operations for a metric with hasMultipleVals, the
\* field of bytesMap for any other
parseStatsFile(s, f, i, acc) ==
  IF f.multi THEN getStatsOperationMetrics(s, f, i, acc)
  ELSE getStatsIOMetrics(s, f, i, acc)

(***************************************************************************)
(* job_stats.  The text of a job_stats file is the sequence of the blocks  *)
(* strings.Split(content, "- ") gives after the header; a block is its     *)
(* lines; a line is the key before its first colon ("" if it has none),    *)
(* the text after the colon and the matches of reNum on the line.          *)
(***************************************************************************)
jobStateKeys ==
  <<"open", "close", "mknod", "link", "unlink", "mkdir", "rmdir", "rename",
    "getattr", "setattr", "getxattr", "setxattr", "statfs", "sync",
    "samedir_rename", "crossdir_rename", "punch", "destroy", "create",
    "get_info", "set_info", "quotactl">>

\* the value __init leaves in every numeric field: absent
Absent == -1

\* jobStateInitVal, as __init made it
jobStateInitVal ==
  [jobid |-> "",
   readbytes |-> <<Absent, Absent, Absent, Absent>>,
   writebytes |-> <<Absent, Absent, Absent, Absent>>,
   vals |-> [j \in 1..Len(jobStateKeys) |-> Absent]]

\* strconv.ParseInt(s, 10, 64) on the matches of reNum the model uses: a
\* match with a decimal point is no integer
ParseInt(tok) ==
  CASE tok = "0" -> [err |-> FALSE, val |-> 0]
    [] tok = "1" -> [err |-> FALSE, val |-> 1]
    [] tok = "2" -> [err |-> FALSE, val |-> 2]
    [] tok = "5" -> [err |-> FALSE, val |-> 5]
    [] tok = "10" -> [err |-> FALSE, val |-> 10]
    [] tok = "20" -> [err |-> FALSE, val |-> 20]
    [] OTHER -> [err |-> TRUE, val |-> 0]

\* strings.TrimSpace on the job ids of the model
TrimSpace(txt) ==
  CASE txt = " job1" -> "job1"
    [] txt = " job2 " -> "job2"
    [] txt = " job3" -> "job3"
    [] OTHER -> txt

\* parsingNums: up to four integers into dest, the count, an error if a
\* match is no integer
RECURSIVE parsingNumsFrom(_, _, _, _)
storeNum(dest, nums, k, cnt, r) ==
  IF r.err THEN [cnt |-> cnt, err |-> TRUE, dest |-> dest]
  ELSE IF cnt + 1 = 4
  THEN [cnt |-> 4, err |-> FALSE, dest |-> [dest EXCEPT ![cnt + 1] = r.val]]
  ELSE parsingNumsFrom([dest EXCEPT ![cnt + 1] = r.val], nums, k + 1, cnt + 1)

parsingNumsFrom(dest, nums, k, cnt) ==
  IF k > Len(nums) THEN [cnt |-> cnt, err |-> FALSE, dest |-> dest]
  ELSE storeNum(dest, nums, k, cnt, ParseInt(nums[k]))

parsingNums(dest, nums) == parsingNumsFrom(dest, nums, 1, 0)

\* a parsingInt64 that takes the last match of the line
parsingInt64Last(nums) ==
  IF Len(nums) < 1 THEN [err |-> TRUE, val |-> 0]
  ELSE ParseInt(nums[Len(nums)])

\* parsingInt64: the first match of reNum, as an integer
parsingInt64(nums) ==
  IF Len(nums) < 1 THEN [err |-> TRUE, val |-> 0]
  ELSE ParseInt(nums[1])

\* getJobID on the first line of a block
getJobID(line) ==
  IF line.key # "job_id" THEN [err |-> TRUE, jobid |-> ""]
  ELSE [err |-> FALSE, jobid |-> TrimSpace(line.text)]

\* the position of a key in jobStateKeys, 0 if it is none of them
KeyIndex(key) ==
  IF \E j \in 1..Len(jobStateKeys) : jobStateKeys[j] = key
  THEN CHOOSE j \in 1..Len(jobStateKeys) : jobStateKeys[j] = key
  ELSE 0

\* parsingFromText, the cases of the switch on the key: read_bytes and
\* write_bytes need four numbers, a key of jobStateKeys needs one
\* a read_bytes case that is content with three numbers
readBytesCaseThree(js, r) ==
  IF r.err \/ r.cnt <= 2 THEN [err |-> TRUE, js |-> js]
  ELSE [err |-> FALSE, js |-> [js EXCEPT !.readbytes = r.dest]]

readBytesCase(js, r) ==
  IF r.err \/ r.cnt <= 3
  THEN [err |-> TRUE, js |-> [js EXCEPT !.readbytes = r.dest]]
  ELSE [err |-> FALSE, js |-> [js EXCEPT !.readbytes = r.dest]]

writeBytesCase(js, r) ==
  IF r.err \/ r.cnt <= 3
  THEN [err |-> TRUE, js |-> [js EXCEPT !.writebytes = r.dest]]
  ELSE [err |-> FALSE, js |-> [js EXCEPT !.writebytes = r.dest]]

valsCase(js, j, r) ==
  IF r.err THEN [err |-> TRUE, js |-> [js EXCEPT !.vals[j] = r.val]]
  ELSE [err |-> FALSE, js |-> [js EXCEPT !.vals[j] = r.val]]

\* parsingFromText, one line of lines[1:]: a line without a key and a
\* key outside the switch change nothing
parsingLine(js, line) ==
  CASE line.key = "read_bytes" ->
         readBytesCase(js, parsingNums(js.readbytes, line.nums))
    [] line.key = "write_bytes" ->
         writeBytesCase(js, parsingNums(js.writebytes, line.nums))
    [] KeyIndex(line.key) # 0 ->
         valsCase(js, KeyIndex(line.key), parsingInt64(line.nums))
    [] OTHER -> [err |-> FALSE, js |-> js]

\* parsingFromText, the loop over lines[1:]: the first error returns
RECURSIVE parsingLines(_, _, _)
afterLine(r, lines, k) ==
  IF r.err THEN r ELSE parsingLines(r.js, lines, k + 1)

parsingLines(js, lines, k) ==
  IF k > Len(lines) THEN [err |-> FALSE, js |-> js]
  ELSE afterLine(parsingLine(js, lines[k]), lines, k)

\* var js jobState, before the first block: the zero value
ZeroJobState ==
  [jobid |-> "",
   readbytes |-> <<0, 0, 0, 0>>,
   writebytes |-> <<0, 0, 0, 0>>,
   vals |-> [j \in 1..Len(jobStateKeys) |-> 0]]

\* an __init2 that leaves the record as the last block left it
init2KeepsFields(js) == js

\* jobState.__init2: *js = jobStateInitVal
init2(js) == jobStateInitVal

\* jobState.parsingFromText on one block, js being the record as the
\* block before left it
withJobID(js, id, block) ==
  IF id.err THEN [err |-> TRUE, js |-> js]
  ELSE parsingLines([js EXCEPT !.jobid = id.jobid], block, 2)

parsingFromText(js, block) == withJobID(init2(js), getJobID(block[1]), block)

\* parseJobStatsText, the loop over the blocks: a block that fails is
\* logged (warns counts the calls of log.Warnf) and skipped
\* a loop over the blocks that gives up the later blocks at a failure
appendJobStopsAtBad(r, rest) ==
  IF r.err THEN [jobs |-> <<>>, warns |-> 1]
  ELSE [rest EXCEPT !.jobs = <<r.js>> \o @]

appendJob(r, rest) ==
  IF r.err THEN [rest EXCEPT !.warns = @ + 1]
  ELSE [rest EXCEPT !.jobs = <<r.js>> \o @]

RECURSIVE parseBlocks(_, _, _)
afterBlock(r, blocks, k) == appendJob(r, parseBlocks(blocks, k + 1, r.js))

parseBlocks(blocks, k, js) ==
  IF k > Len(blocks) THEN [jobs |-> <<>>, warns |-> 0]
  ELSE afterBlock(parsingFromText(js, blocks[k]), blocks, k)

\* one sample of a job: the operation ("" for an I/O metric) and the job id
JobSample(s, i, op, jobid, v) == <<s, i, op, jobid, v>>

\* an operation projection that also skips a value of 0
RECURSIVE opSamplesSkipsZero(_, _, _, _)
opSamplesSkipsZero(s, i, js, j) ==
  IF j > Len(jobStateKeys) THEN <<>>
  ELSE (IF js.vals[j] <= 0 THEN <<>>
        ELSE <<JobSample(s, i, jobStateKeys[j], js.jobid, js.vals[j])>>)
       \o opSamplesSkipsZero(s, i, js, j + 1)

\* getJobStatsOperationMetrics: for every job, every key whose value is
\* not negative
RECURSIVE opSamples(_, _, _, _)
opSamples(s, i, js, j) ==
  IF j > Len(jobStateKeys) THEN <<>>
  ELSE (IF js.vals[j] < 0 THEN <<>>
        ELSE <<JobSample(s, i, jobStateKeys[j], js.jobid, js.vals[j])>>)
       \o opSamples(s, i, js, j + 1)

RECURSIVE getJobStatsOperationMetrics(_, _, _, _)
getJobStatsOperationMetrics(s, i, jobs, k) ==
  IF k > Len(jobs) THEN <<>>
  ELSE opSamples(s, i, jobs[k], 1)
       \o getJobStatsOperationMetrics(s, i, jobs, k + 1)

\* getJobStatsIOMetrics: for every job, the field of readbytes or
\* writebytes the metric selects; nothing for a metric outside
\* jobStatsMultistatParsingStruct
\* a getJobStatsIOMetrics that takes the number after the one of the index
RECURSIVE getJobStatsIOMetricsNext(_, _, _, _, _)
getJobStatsIOMetricsNext(s, i, f, jobs, k) ==
  IF k > Len(jobs) \/ f.pattern \notin {"read_bytes", "write_bytes"} THEN <<>>
  ELSE <<JobSample(s, i, "", jobs[k].jobid,
                   IF f.pattern = "read_bytes"
                   THEN jobs[k].readbytes[((f.index + 1) % 4) + 1]
                   ELSE jobs[k].writebytes[((f.index + 1) % 4) + 1])>>
       \o getJobStatsIOMetricsNext(s, i, f, jobs, k + 1)

RECURSIVE getJobStatsIOMetrics(_, _, _, _, _)
getJobStatsIOMetrics(s, i, f, jobs, k) ==
  IF k > Len(jobs) \/ f.pattern \notin {"read_bytes", "write_bytes"} THEN <<>>
  ELSE <<JobSample(s, i, "", jobs[k].jobid,
                   IF f.pattern = "read_bytes"
                   THEN jobs[k].readbytes[f.index + 1]
                   ELSE jobs[k].writebytes[f.index + 1])>>
       \o getJobStatsIOMetrics(s, i, f, jobs, k + 1)

\* collect, the switch on metric.filename for one path
parseFile(s, f, i, acc) ==
  CASE f.filename = "brw_stats" -> parseBRWStats(s, f, i, acc)
    [] f.filename = "stats" -> parseStatsFile(s, f, i, acc)
    [] OTHER -> parseSingle(s, f, i, acc)

\* newCtx: no samples, an empty map of job states; textParses lists the
\* paths whose text parseJobStatsText has split, in order, and warnings
\* counts the blocks it has logged
EmptyMemo == [x \in {} |-> <<>>]
newCtx ==
  [metrics_ |-> <<>>, filesJobStats |-> EmptyMemo, textParses |-> <<>>,
   warnings |-> 0]

\* parseJobStatsText, the end: the projection the metric asks for
jobSamples(s, f, i, jobs) ==
  IF f.multi THEN getJobStatsOperationMetrics(s, i, jobs, 1)
  ELSE getJobStatsIOMetrics(s, i, f, jobs, 1)

\* parseJobStatsText for a path that is not in the map: the text is read
\* and split; a text without blocks returns before the map is written
parseJobStatsFromText(s, f, i, ctx, parsed) ==
  IF Len(f.blocks) = 0
  THEN [err |-> FALSE, panic |-> FALSE, metrics_ |-> ctx.metrics_,
        filesJobStats |-> ctx.filesJobStats,
        textParses |-> Append(ctx.textParses, f.path),
        warnings |-> ctx.warnings]
  ELSE [err |-> FALSE, panic |-> FALSE,
        metrics_ |-> ctx.metrics_ \o jobSamples(s, f, i, parsed.jobs),
        filesJobStats |-> (f.path :> parsed.jobs) @@ ctx.filesJobStats,
        textParses |-> Append(ctx.textParses, f.path),
        warnings |-> ctx.warnings + parsed.warns]

\* parseJobStatsText: the job states of the path, from the map or from
\* the text, then the projection
parseJobStatsText(s, f, i, ctx) ==
  IF f.path \in DOMAIN ctx.filesJobStats
  THEN [err |-> FALSE, panic |-> FALSE,
        metrics_ |-> ctx.metrics_
                       \o jobSamples(s, f, i, ctx.filesJobStats[f.path]),
        filesJobStats |-> ctx.filesJobStats,
        textParses |-> ctx.textParses, warnings |-> ctx.warnings]
  ELSE parseJobStatsFromText(s, f, i, ctx, parseBlocks(f.blocks, 1, ZeroJobState))

\* collect, the body of the loop over paths: job_stats goes through the
\* map of the context, every other file only appends samples
parsePath(s, f, i, ctx) ==
  IF f.filename = "job_stats" THEN parseJobStatsText(s, f, i, ctx)
  ELSE parseFile(s, f, i, ctx.metrics_)
         @@ [filesJobStats |-> ctx.filesJobStats,
             textParses |-> ctx.textParses, warnings |-> ctx.warnings]

\* the context as one path left it
CtxAfter(r) ==
  [metrics_ |-> r.metrics_, filesJobStats |-> r.filesJobStats,
   textParses |-> r.textParses, warnings |-> r.warnings]

\* a collect that goes on with the next file after an error
RECURSIVE collectLoopContinues(_, _, _, _)
collectLoopContinues(s, files, i, ctx) ==
  IF i > Len(files)
  THEN [err |-> FALSE, panic |-> FALSE, read |-> i - 1] @@ ctx
  ELSE LET r == parsePath(s, files[i], i, ctx)
           rest == collectLoopContinues(s, files, i + 1, CtxAfter(r))
       IN  [rest EXCEPT !.err = r.err \/ rest.err,
                        !.panic = r.panic \/ rest.panic]

\* procfsV2Ctx.collect: the loop over the metric table and the paths of
\* each metric; the first error returns, what was appended stays.
\* read counts the files handed to the reader.
RECURSIVE collectLoop(_, _, _, _)
collectLoop(s, files, i, ctx) ==
  IF i > Len(files)
  THEN [err |-> FALSE, panic |-> FALSE, read |-> i - 1] @@ ctx
  ELSE LET r == parsePath(s, files[i], i, ctx)
       IN  IF r.err \/ r.panic THEN r @@ [read |-> i]
           ELSE collectLoop(s, files, i + 1, CtxAfter(r))

collect(s, files) == collectLoop(s, files, 1, newCtx)

\* the files of the model
SingleFile(tok) ==
  [filename |-> "num_exports", heading |-> "", pattern |-> "", index |-> 0,
   lines |-> <<<<tok>>>>, path |-> "", multi |-> FALSE, blocks |-> <<>>]
BrwFile(rows) ==
  [filename |-> "brw_stats", heading |-> "pages per bulk r/w",
   pattern |-> "", index |-> 0,
   lines |-> <<<<"pages per bulk r/w">>>> \o rows,
   path |-> "", multi |-> FALSE, blocks |-> <<>>]
StatsFile(idx, lines) ==
  [filename |-> "stats", heading |-> "", pattern |-> "read_bytes",
   index |-> idx, lines |-> lines,
   path |-> "", multi |-> FALSE, blocks |-> <<>>]

JobFile(path, multi, pattern, idx, blocks) ==
  [filename |-> "job_stats", heading |-> "", pattern |-> pattern,
   index |-> idx, lines |-> <<>>,
   path |-> path, multi |-> multi, blocks |-> blocks]

\* scalar files: a number, or text that is no number
ScalarFiles == {SingleFile("1"), SingleFile("x")}

\* a histogram row, and one whose read count is no number
GoodRow == <<"4K:", "1", "50", "50", "|", "2", "50", "50">>
BadRow == <<"1M:", "x", "50", "50", "|", "2", "50", "50">>

\* the read_bytes line of a stats file, and one whose sample count is no
\* number
GoodStats == <<"read_bytes", "5", "samples", "[bytes]", "1", "2", "5">>
BadStats == <<"read_bytes", "x", "samples", "[bytes]", "1", "2", "5">>

\* files of every kind, well-formed and malformed
CollectFiles ==
  ScalarFiles \cup
  {BrwFile(<<GoodRow>>), BrwFile(<<GoodRow, BadRow>>),
   StatsFile(1, <<GoodStats>>), StatsFile(1, <<BadStats>>)}

\* a histogram whose second row has one field, and a stats file whose
\* read_bytes line ends before the field of the minimum
ShortFiles ==
  {BrwFile(<<GoodRow, <<"1M:">>>>),
   StatsFile(4, <<<<"read_bytes", "5", "samples">>>>)}

\* the lines of a job block: the job_id line with the text after the
\* colon, and a "key: ..." line with the matches of reNum on it (a line
\* without a colon has the key "")
IdLine(text) == [key |-> "job_id", text |-> text, nums |-> <<>>]
JLine(key, nums) == [key |-> key, text |-> "", nums |-> nums]

\* job blocks: a complete one (five numbers on read_bytes, two on open, a
\* close of 0, no punch); one without job_id; one without read_bytes and
\* write_bytes; and blocks with a line that parsingFromText rejects
FullJob ==
  <<IdLine(" job1"), JLine("snapshot_time", <<"20">>),
    JLine("read_bytes", <<"2", "1", "5", "10", "20">>),
    JLine("write_bytes", <<"1", "0", "2", "2">>),
    JLine("open", <<"1", "5">>), JLine("close", <<"0">>)>>
NoIdJob == <<JLine("snapshot_time", <<"20">>), JLine("open", <<"5">>)>>
NoIoJob ==
  <<IdLine(" job3"), JLine("open", <<"2">>), JLine("punch", <<"0">>),
    JLine("", <<"5">>)>>
ShortReadJob ==
  <<IdLine(" job2 "), JLine("open", <<"1">>),
    JLine("read_bytes", <<"1", "2", "5">>)>>
ShortWriteJob == <<IdLine(" job2 "), JLine("write_bytes", <<"1">>)>>
NoNumJob == <<IdLine(" job2 "), JLine("open", <<>>)>>
DecimalJob == <<IdLine(" job2 "), JLine("close", <<"1.5">>)>>
JobBlocks ==
  {FullJob, NoIdJob, NoIoJob, ShortReadJob, ShortWriteJob, NoNumJob,
   DecimalJob}

\* the texts of a job_stats file, as the blocks after the header: none,
\* one of the blocks above, one of them before a complete block, or three
\* with a bad one in the middle
JobTexts ==
  {<<>>} \cup {<<a>> : a \in JobBlocks}
    \cup {<<a, FullJob>> : a \in JobBlocks}
    \cup {<<FullJob, b, NoIoJob>> : b \in JobBlocks \ {FullJob, NoIoJob}}

\* the metrics on job_stats: the operation counters (hasMultipleVals), a
\* field of read_bytes or write_bytes, and an I/O metric that is not in
\* jobStatsMultistatParsingStruct
OpMetric == [multi |-> TRUE, pattern |-> "", index |-> 0]
IoMetric(pattern, idx) == [multi |-> FALSE, pattern |-> pattern, index |-> idx]

\* the references of a pass to job_stats: the metric of the first
\* reference, the metric of the second and the path of the second (the
\* first reads "p1")
JobRefs ==
  {<<OpMetric, IoMetric("read_bytes", 3), "p1">>,
   <<IoMetric("read_bytes", 0), OpMetric, "p1">>,
   <<IoMetric("write_bytes", 1), OpMetric, "p1">>,
   <<IoMetric("", 0), IoMetric("write_bytes", 3), "p1">>,
   <<OpMetric, OpMetric, "p2">>,
   <<IoMetric("read_bytes", 2), OpMetric, "p2">>}

\* a stats file read for the operation counters
StatsOpFile(lines) ==
  [filename |-> "stats", heading |-> "", pattern |-> "", index |-> 1,
   lines |-> lines, path |-> "", multi |-> TRUE, blocks |-> <<>>]

\* the lines of a stats file: operations of operationSlice, a line of
\* another name, a name that ends with an operation, a count that is no
\* number
PingLine == <<"ping", "141", "samples", "[reqs]">>
ConnectLine == <<"connect", "1", "samples", "[reqs]">>
OstConnectLine == <<"ost_connect", "2", "samples", "[reqs]">>
SnapshotLine == <<"snapshot_time", "5", "secs.usecs">>
BadOpenLine == <<"open", "x", "samples", "[reqs]">>
WriteStats == <<"write_bytes", "5", "samples", "[bytes]", "1", "2", "5">>
StatsOpTexts ==
  {<<>>, <<SnapshotLine>>, <<PingLine>>, <<SnapshotLine, PingLine>>,
   <<PingLine, ConnectLine>>, <<OstConnectLine>>,
   <<OstConnectLine, ConnectLine>>, <<ConnectLine, OstConnectLine>>,
   <<BadOpenLine, PingLine>>}

\* a histogram row cut after its first n fields, and a brw_stats file
\* whose text has the block of another metric only
Row(n) == SubSeq(GoodRow, 1, n)
NoHeadingFile ==
  [BrwFile(<<>>) EXCEPT !.lines = <<<<"disk I/O size">>, GoodRow>>]

\* a job whose write_bytes line is that of the example: samples 10,
\* min 1, max 5, sum 20
IoJob ==
  <<IdLine(" job1"), JLine("read_bytes", <<"2", "0", "1", "5">>),
    JLine("write_bytes", <<"10", "1", "5", "20">>)>>

\* the files whose parsing is checked one by one
ParseFiles ==
  {NoHeadingFile, BrwFile(<<>>), BrwFile(<<GoodRow, GoodRow>>),
   BrwFile(<<GoodRow, <<>>, GoodRow>>)}
    \cup {BrwFile(<<Row(n)>>) : n \in 1..8}
    \cup {StatsFile(n, <<GoodStats>>) : n \in {1, 4, 5, 6}}
    \cup {StatsFile(1, <<WriteStats>>), StatsFile(1, <<>>)}
    \cup {StatsOpFile(txt) : txt \in StatsOpTexts}
    \cup {JobFile("p1", TRUE, "", 0, <<>>),
          JobFile("p1", FALSE, "read_bytes", 0, <<>>),
          JobFile("p1", TRUE, "", 0, <<FullJob, FullJob>>)}
    \cup {JobFile("p1", FALSE, pat, n, <<IoJob>>) :
            pat \in {"read_bytes", "write_bytes"}, n \in 0..3}

\* the file lists a pass of the scheduler model may find
FileLists == [1..NumFiles -> ScalarFiles]

(***************************************************************************)
(* State.                                                                  *)
(***************************************************************************)
VARIABLES
  MAX_WORKER,   \* var MAX_WORKER, set once from --collector.v2.workers
  list,         \* the source list the exporter hands to runner.Update
  fsys,         \* the files each source's metric table resolves to
  nReq,         \* the number of scrape requests that arrive
  clock,        \* the latest reading of time.Now()
  mu,           \* runner.mu: Free or the holder
  workers,      \* runner.workers
  lastSuccess,  \* runner.lastSuccess
  nCreated,     \* workers allocated so far by newWorker
  creat,        \* worker.creat
  wend,         \* worker.end
  wg,           \* worker.wg counter
  wpc,          \* position of the goroutine of worker.run
  ctxs,         \* worker.ctxs: the sources in the order they were appended
  cpc,          \* position of the collect goroutine of each context
  result,       \* runnerCtx.result
  metrics_,     \* procfsV2Ctx.metrics_
  fr,           \* procfsV2Ctx.fr: the file contents the reader has cached
  filesJobStats,\* procfsV2Ctx.filesJobStats: nil, or the paths it has job
                \* states for
  textParses,   \* the paths whose text the context has split into blocks
  warnings,     \* the job blocks the context has logged as failed
  recycled,     \* the job-state slices the context has put back in the pool
  pool,         \* sPool.jobStatss: the slices put back, as they were left
  gets,         \* what Get returned for each slice the context took
  relCount,     \* how many times release() ran on the context
  rpc,          \* position of the goroutine of worker.release
  pc,           \* position of each scrape request in updateV2
  now,          \* updateV2: now
  inWindow,     \* whether the request arrived within SHELF_LIFE after the
                \* end of the pass it then read as last successful
  tgt,          \* updateV2: the worker the request publishes from
  made,         \* the worker the request created, if any
  idx,          \* worker.update: index of the next context
  out,          \* what the request sent to the output channel
  obs,          \* the observations the request recorded on the summary
  relAtUpd,     \* whether release() had run on a context when the request
                \* updated from it
  CollectVersion, \* var CollectVersion, set once from --collector.collect.ver
  upd,          \* updateV1: how many times the request called Update on
                \* each source
  v1wg          \* updateV1: the counter of its wg

runnerVars == <<MAX_WORKER, list, fsys, nReq, mu, workers, lastSuccess, nCreated>>
workerVars == <<creat, wend, wg, wpc, ctxs, rpc>>
ctxVars ==
  <<cpc, result, metrics_, fr, filesJobStats, textParses, warnings, recycled,
    pool, gets,
    relCount>>
reqVars == <<pc, now, inWindow, tgt, made, idx, out, obs, relAtUpd>>
v1Vars == <<CollectVersion, upd, v1wg>>
vars == <<clock, runnerVars, workerVars, ctxVars, reqVars, v1Vars>>

\* a nil map, and the map newCtx makes
NilMap == [isNil |-> TRUE, paths |-> {}, states |-> EmptyMemo]
EmptyMap == [isNil |-> FALSE, paths |-> {}, states |-> EmptyMemo]

\* the fields after construction, whatever the settings, the files and
\* the time are
InitFields ==
  /\ mu = Free
  /\ workers = {}
  /\ lastSuccess = NoWorker
  /\ nCreated = 0
  /\ creat = [w \in WorkerIds |-> NoTime]
  /\ wend = [w \in WorkerIds |-> NoTime]
  /\ wg = [w \in WorkerIds |-> 0]
  /\ wpc = [w \in WorkerIds |-> "none"]
  /\ ctxs = [w \in WorkerIds |-> <<>>]
  /\ cpc = [w \in WorkerIds |-> [s \in Sources |-> "none"]]
  /\ result = [w \in WorkerIds |-> [s \in Sources |-> "success"]]
  /\ metrics_ = [w \in WorkerIds |-> [s \in Sources |-> <<>>]]
  /\ fr = [w \in WorkerIds |-> [s \in Sources |-> <<>>]]
  /\ filesJobStats = [w \in WorkerIds |-> [s \in Sources |-> NilMap]]
  /\ textParses = [w \in WorkerIds |-> [s \in Sources |-> <<>>]]
  /\ warnings = [w \in WorkerIds |-> [s \in Sources |-> 0]]
  /\ recycled = [w \in WorkerIds |-> [s \in Sources |-> 0]]
  /\ pool = {}
  /\ gets = [w \in WorkerIds |-> [s \in Sources |-> <<>>]]
  /\ relCount = [w \in WorkerIds |-> [s \in Sources |-> 0]]
  /\ rpc = [w \in WorkerIds |-> "none"]
  /\ pc = [p \in Requests |-> "idle"]
  /\ now = [p \in Requests |-> NoTime]
  /\ inWindow = [p \in Requests |-> FALSE]
  /\ tgt = [p \in Requests |-> NoWorker]
  /\ made = [p \in Requests |-> NoWorker]
  /\ idx = [p \in Requests |-> 0]
  /\ out = [p \in Requests |-> <<>>]
  /\ obs = [p \in Requests |-> <<>>]
  /\ relAtUpd = [p \in Requests |-> FALSE]
  /\ upd = [p \in Requests |-> [s \in Sources |-> 0]]
  /\ v1wg = [p \in Requests |-> 0]

\* the state after construction, at the first instant of the clock
InitState == clock = 0 /\ InitFields

\* a burst of requests on one source whose files all parse
Init ==
  /\ CollectVersion = "v2"
  /\ MAX_WORKER \in 1..MaxWorkerSetting
  /\ list = {1}
  /\ nReq = NumRequests
  /\ fsys = [s \in list |-> [i \in 1..NumFiles |-> SingleFile("1")]]
  /\ InitState

\* one worker at a time over every source
InitPass ==
  /\ CollectVersion = "v2"
  /\ MAX_WORKER = 1
  /\ list = Sources
  /\ nReq = NumRequests - 1
  /\ fsys \in [list -> FileLists]
  /\ InitState

\* one request, one pass: the first source finds files of every kind, the
\* second scalar files
InitCollect ==
  /\ CollectVersion = "v2"
  /\ MAX_WORKER = 1
  /\ list = Sources
  /\ nReq = 1
  /\ fsys \in {f \in [list -> [1..NumFiles -> CollectFiles]] :
                 \A i \in 1..NumFiles : f[2][i] \in ScalarFiles}
  /\ InitState

\* one request, one pass: the first source finds scalar files and files
\* with short rows, the second scalar files
\* one request over one source, which reads a job_stats path for one
\* metric and then the same or another path for a second metric
InitJobs ==
  /\ CollectVersion = "v2"
  /\ MAX_WORKER = 1
  /\ list = {1}
  /\ nReq = 1
  /\ \E txt \in JobTexts, r \in JobRefs :
        fsys = [s \in list |->
                  <<JobFile("p1", r[1].multi, r[1].pattern, r[1].index, txt),
                    JobFile(r[3], r[2].multi, r[2].pattern, r[2].index, txt)>>]
  /\ InitState

\* one request over one source, which reads one of the files above and
\* then a scalar file
InitParse ==
  /\ CollectVersion = "v2"
  /\ MAX_WORKER = 1
  /\ list = {1}
  /\ nReq = 1
  /\ \E f \in ParseFiles : fsys = [s \in list |-> <<f, SingleFile("1")>>]
  /\ InitState

InitShort ==
  /\ CollectVersion = "v2"
  /\ MAX_WORKER = 1
  /\ list = Sources
  /\ nReq = 1
  /\ fsys \in {f \in [list -> [1..NumFiles -> ScalarFiles \cup ShortFiles]] :
                 \A i \in 1..NumFiles : f[2][i] \in ScalarFiles}
  /\ InitState

\* two requests, one worker at a time; each source's files all parse or
\* its first file does not
InitLive ==
  /\ CollectVersion = "v2"
  /\ MAX_WORKER = 1
  /\ list = Sources
  /\ nReq = NumRequests - 1
  /\ fsys \in [list -> {[i \in 1..NumFiles |-> SingleFile("1")],
                        [i \in 1..NumFiles |->
                           IF i = 1 THEN SingleFile("x") ELSE SingleFile("1")]}]
  /\ InitState

\* the files of a burst: the files of the second source all parse, those
\* of the first all parse or the first of them does not
BurstFiles ==
  {f \in [list -> {[i \in 1..NumFiles |-> SingleFile("1")],
                   [i \in 1..NumFiles |->
                      IF i = 1 THEN SingleFile("x") ELSE SingleFile("1")]}] :
     f[2][1] = SingleFile("1")}

\* two requests, two workers allowed
InitBurst ==
  /\ CollectVersion = "v2"
  /\ MAX_WORKER = MaxWorkerSetting
  /\ list = Sources
  /\ nReq = NumRequests - 1
  /\ fsys \in BurstFiles
  /\ InitState

\* two requests, one or two workers allowed, all within one reading of
\* the clock
InitWaits ==
  /\ CollectVersion = "v2"
  /\ MAX_WORKER \in 1..MaxWorkerSetting
  /\ list = Sources
  /\ nReq = NumRequests - 1
  /\ fsys \in BurstFiles
  /\ clock = MaxTime
  /\ InitFields

\* a second histogram row, of another size
BigRow == <<"1M:", "2", "50", "50", "|", "5", "50", "50">>

\* file lists with several rows, job blocks, counters and operations
OrderedLists ==
  {<<JobFile("p1", TRUE, "", 0, <<FullJob, NoIoJob>>),
     BrwFile(<<GoodRow, BigRow>>)>>,
   <<StatsOpFile(<<PingLine, ConnectLine>>),
     JobFile("p1", FALSE, "read_bytes", 0, <<NoIoJob, FullJob>>)>>,
   <<JobFile("p1", TRUE, "", 0, <<FullJob, ShortReadJob>>),
     JobFile("p2", TRUE, "", 0, <<NoIoJob>>)>>}

\* two requests over one source, two workers allowed: two passes may read
\* the same files
InitTwice ==
  /\ CollectVersion = "v2"
  /\ MAX_WORKER = MaxWorkerSetting
  /\ list = {1}
  /\ nReq = NumRequests - 1
  /\ \E fl \in OrderedLists : fsys = [s \in list |-> fl]
  /\ InitState

\* the values --collector.v2.workers may be given
WorkerFlags == {-1, 0, 1, 2}

\* a main that takes the flag as it is given
mainMaxWorkerAsGiven(flag) == flag

\* main: MAX_WORKER = *workers, and 4 if that is not positive
mainMaxWorker(flag) == IF flag <= 0 THEN 4 ELSE flag

\* two requests over one source, the worker limit as main sets it from
\* the flag
InitFlag ==
  /\ CollectVersion = "v2"
  /\ \E flag \in WorkerFlags : MAX_WORKER = mainMaxWorker(flag)
  /\ list = {1}
  /\ nReq = NumRequests - 1
  /\ fsys = [s \in list |-> [i \in 1..NumFiles |-> SingleFile("1")]]
  /\ InitState

\* either collection mode, two requests, one worker allowed
InitV1 ==
  /\ CollectVersion \in {"v1", "v2"}
  /\ MAX_WORKER = 1
  /\ list = Sources
  /\ nReq = NumRequests - 1
  /\ fsys = [s \in list |-> [i \in 1..NumFiles |-> SingleFile("1")]]
  /\ InitState

\* time.Now(): the clock is monotonic, so a reading is no earlier than the
\* latest reading made so far, which is what clock holds
TimeNow == clock..MaxTime

(***************************************************************************)
(* runner: the scheduler.                                                  *)
(***************************************************************************)
\* a capacity test that lets one worker too many in
AtCapacityOffByOne(ws) == Cardinality(ws) > MAX_WORKER

\* getRunnerWorker: len(r.workers) >= MAX_WORKER
AtCapacity(ws) == Cardinality(ws) >= MAX_WORKER

\* an at-capacity branch that returns whichever worker the map gives first
AttachAny(ws) == ws

\* an at-capacity branch that returns a worker no other was created before
AttachOldest(ws) == {w \in ws : \A v \in ws : creat[w] <= creat[v]}

\* getRunnerWorker, the loop of the at-capacity branch: ret is replaced
\* whenever ret.creat.Before(worker.creat), so the loop ends on a worker
\* whose creat no other exceeds; the map is ranged over in any order, so
\* among equal timestamps any one may be returned
AttachTargets(ws) == {w \in ws : \A v \in ws : creat[v] <= creat[w]}

\* a freshness test that ends the shelf life one instant early
FreshStrict(n, e) == n - e < SHELF_LIFE

\* updateV2: now.Sub(lastSuccess.end) <= SHELF_LIFE
Fresh(n, e) == n - e <= SHELF_LIFE

\* the contexts of worker.ctxs
CtxOf(w) == {ctxs[w][i] : i \in 1..Len(ctxs[w])}

\* a panic in any goroutine ends the process: nothing runs after it
Running == \A w \in WorkerIds : \A s \in Sources : cpc[w][s] # "panic"

\* a Wait that returns at once, whatever the counter is
wgNoWait(w) == TRUE

\* a Wait that returns only when no worker at all has a collect running
wgWaitsForAll(w) == \A v \in WorkerIds : wg[v] = 0

\* a Wait that returns while one collect is still running
wgWaitOneLeft(w) == wg[w] <= 1

\* sync.WaitGroup.Wait on worker.wg returns
wgWaitDone(w) == wg[w] = 0

\* a mode test that takes every request for a v2 request
IsV2Always == TRUE

\* runner.Update: CollectVersion == "v2"
IsV2 == CollectVersion = "v2"

\* runner.Update in v2 mode; updateV2: now := time.Now()
\* (requests are interchangeable: they are numbered in the order they arrive)
Arrive(p) ==
  /\ Running
  /\ UNCHANGED v1Vars
  /\ IsV2
  /\ pc[p] = "idle"
  /\ p <= nReq
  /\ \A q \in Requests : q < p => pc[q] # "idle"
  /\ \E t \in TimeNow : clock' = t /\ now' = [now EXCEPT ![p] = t]
  /\ pc' = [pc EXCEPT ![p] = "readLast"]
  /\ UNCHANGED <<runnerVars, workerVars, ctxVars,
                 inWindow, tgt, made, idx, out, obs, relAtUpd>>

\* an updateV2 that reuses the last pass only when none of its sources
\* failed
ReadLastSkipsFailed(p) ==
  /\ Running
  /\ UNCHANGED v1Vars
  /\ pc[p] = "readLast"
  /\ inWindow' = [inWindow EXCEPT ![p] =
                     /\ lastSuccess # NoWorker
                     /\ wend[lastSuccess] <= now[p]
                     /\ now[p] <= wend[lastSuccess] + SHELF_LIFE]
  /\ now' = [now EXCEPT ![p] = NoTime]
  /\ IF /\ lastSuccess # NoWorker /\ Fresh(now[p], wend[lastSuccess])
        /\ \A s \in list : result[lastSuccess][s] # "error"
     THEN /\ tgt' = [tgt EXCEPT ![p] = lastSuccess]
          /\ idx' = [idx EXCEPT ![p] = 1]
          /\ pc' = [pc EXCEPT ![p] = "update"]
     ELSE /\ pc' = [pc EXCEPT ![p] = "grwLock"]
          /\ UNCHANGED <<tgt, idx>>
  /\ UNCHANGED <<clock, runnerVars, workerVars, ctxVars,
                 made, out, obs, relAtUpd>>

\* updateV2: lastSuccess := r.lastSuccess and the freshness test on
\* lastSuccess.end; no lock is taken.  now is not used afterwards.
ReadLast(p) ==
  /\ Running
  /\ UNCHANGED v1Vars
  /\ pc[p] = "readLast"
  /\ inWindow' = [inWindow EXCEPT ![p] =
                     /\ lastSuccess # NoWorker
                     /\ wend[lastSuccess] <= now[p]
                     /\ now[p] <= wend[lastSuccess] + SHELF_LIFE]
  /\ now' = [now EXCEPT ![p] = NoTime]
  /\ IF lastSuccess # NoWorker /\ Fresh(now[p], wend[lastSuccess])
     THEN /\ tgt' = [tgt EXCEPT ![p] = lastSuccess]
          /\ idx' = [idx EXCEPT ![p] = 1]
          /\ pc' = [pc EXCEPT ![p] = "update"]
     ELSE /\ pc' = [pc EXCEPT ![p] = "grwLock"]
          /\ UNCHANGED <<tgt, idx>>
  /\ UNCHANGED <<clock, runnerVars, workerVars, ctxVars,
                 made, out, obs, relAtUpd>>

\* getRunnerWorker: r.mu.Lock()
\* (a run makes at most MaxPasses workers)
GrwLock(p) ==
  /\ Running
  /\ UNCHANGED v1Vars
  /\ pc[p] = "grwLock"
  /\ mu = Free
  /\ AtCapacity(workers) \/ nCreated < MaxPasses
  /\ mu' = <<"req", p>>
  /\ pc' = [pc EXCEPT ![p] = "grwIn"]
  /\ UNCHANGED <<clock, MAX_WORKER, list, fsys, nReq, workers, lastSuccess, nCreated,
                 workerVars, ctxVars,
                 now, inWindow, tgt, made, idx, out, obs, relAtUpd>>

\* a getRunnerWorker that returns without the deferred Unlock: the request
\* waits for the worker with the mutex held
GrwBodyKeepsLock(p) ==
  /\ Running
  /\ UNCHANGED v1Vars
  /\ pc[p] = "grwIn"
  /\ IF AtCapacity(workers)
     THEN /\ IF workers = {}
             THEN tgt' = [tgt EXCEPT ![p] = NoWorker]
             ELSE \E w \in AttachTargets(workers) :
                    tgt' = [tgt EXCEPT ![p] = w]
          /\ UNCHANGED <<clock, workers, nCreated, creat, wg, wpc, made>>
     ELSE LET w == nCreated + 1
          IN  /\ nCreated' = w
              /\ \E t \in TimeNow :
                   clock' = t /\ creat' = [creat EXCEPT ![w] = t]
              /\ workers' = workers \cup {w}
              /\ wg' = [wg EXCEPT ![w] = Cardinality(list)]
              /\ wpc' = [wpc EXCEPT ![w] = "spawn"]
              /\ tgt' = [tgt EXCEPT ![p] = w]
              /\ made' = [made EXCEPT ![p] = w]
  /\ mu' = mu
  /\ pc' = [pc EXCEPT ![p] = "wait"]
  /\ UNCHANGED <<MAX_WORKER, list, fsys, nReq, lastSuccess, wend, ctxs, rpc,
                 ctxVars, now, inWindow, idx, out, obs, relAtUpd>>

\* getRunnerWorker under the lock: attach when at capacity, else newWorker
\* and run (w.start, wg.Add(len(list)), go ...), then the deferred Unlock
\* (the loop of the at-capacity branch over an empty map leaves ret nil)
GrwBody(p) ==
  /\ Running
  /\ UNCHANGED v1Vars
  /\ pc[p] = "grwIn"
  /\ IF AtCapacity(workers)
     THEN /\ IF workers = {}
             THEN tgt' = [tgt EXCEPT ![p] = NoWorker]
             ELSE \E w \in AttachTargets(workers) :
                    tgt' = [tgt EXCEPT ![p] = w]
          /\ UNCHANGED <<clock, workers, nCreated, creat, wg, wpc, made>>
     ELSE LET w == nCreated + 1
          IN  /\ nCreated' = w
              /\ \E t \in TimeNow :
                   clock' = t /\ creat' = [creat EXCEPT ![w] = t]
              /\ workers' = workers \cup {w}
              /\ wg' = [wg EXCEPT ![w] = Cardinality(list)]
              /\ wpc' = [wpc EXCEPT ![w] = "spawn"]
              /\ tgt' = [tgt EXCEPT ![p] = w]
              /\ made' = [made EXCEPT ![p] = w]
  /\ mu' = Free
  /\ pc' = [pc EXCEPT ![p] = "wait"]
  /\ UNCHANGED <<MAX_WORKER, list, fsys, nReq, lastSuccess, wend, ctxs, rpc,
                 ctxVars, now, inWindow, idx, out, obs, relAtUpd>>

\* updateV2: w.wait(); on a nil worker the call dereferences nil and the
\* request goes no further
Wait(p) ==
  /\ Running
  /\ UNCHANGED v1Vars
  /\ pc[p] = "wait"
  /\ tgt[p] \in WorkerIds
  /\ wgWaitDone(tgt[p])
  /\ idx' = [idx EXCEPT ![p] = 1]
  /\ pc' = [pc EXCEPT ![p] = "update"]
  /\ UNCHANGED <<clock, runnerVars, workerVars, ctxVars,
                 now, inWindow, tgt, made, out, obs, relAtUpd>>

\* an update that hands its samples over: metrics_ is empty afterwards
UpdateStepDrains(p) ==
  /\ Running
  /\ UNCHANGED v1Vars
  /\ pc[p] = "update"
  /\ idx[p] <= Len(ctxs[tgt[p]])
  /\ LET w == tgt[p]
         s == ctxs[w][idx[p]]
     IN  /\ out' = [out EXCEPT ![p] = out[p] \o metrics_[w][s]]
         /\ obs' = [obs EXCEPT ![p] = Append(obs[p], <<s, result[w][s]>>)]
         /\ relAtUpd' = [relAtUpd EXCEPT ![p] =
                           relAtUpd[p] \/ relCount[w][s] > 0]
         /\ metrics_' = [metrics_ EXCEPT ![w][s] = <<>>]
  /\ idx' = [idx EXCEPT ![p] = idx[p] + 1]
  /\ UNCHANGED <<clock, runnerVars, workerVars, cpc, result, fr,
                 filesJobStats, textParses, warnings, recycled, pool, gets,
                 relCount,
                 pc, now, inWindow, tgt, made>>

\* an update that sends nothing for a context whose result is "error"
UpdateStepSkipsFailed(p) ==
  /\ Running
  /\ UNCHANGED v1Vars
  /\ pc[p] = "update"
  /\ idx[p] <= Len(ctxs[tgt[p]])
  /\ LET w == tgt[p]
         s == ctxs[w][idx[p]]
     IN  /\ out' = [out EXCEPT ![p] =
                      IF result[w][s] = "error" THEN out[p]
                      ELSE out[p] \o metrics_[w][s]]
         /\ obs' = [obs EXCEPT ![p] = Append(obs[p], <<s, result[w][s]>>)]
         /\ relAtUpd' = [relAtUpd EXCEPT ![p] =
                           relAtUpd[p] \/ relCount[w][s] > 0]
  /\ idx' = [idx EXCEPT ![p] = idx[p] + 1]
  /\ UNCHANGED <<clock, runnerVars, workerVars, ctxVars,
                 pc, now, inWindow, tgt, made>>

\* an update that labels every observation "success"
UpdateStepLabelsSuccess(p) ==
  /\ Running
  /\ UNCHANGED v1Vars
  /\ pc[p] = "update"
  /\ idx[p] <= Len(ctxs[tgt[p]])
  /\ LET w == tgt[p]
         s == ctxs[w][idx[p]]
     IN  /\ out' = [out EXCEPT ![p] = out[p] \o metrics_[w][s]]
         /\ obs' = [obs EXCEPT ![p] = Append(obs[p], <<s, "success">>)]
         /\ relAtUpd' = [relAtUpd EXCEPT ![p] =
                           relAtUpd[p] \/ relCount[w][s] > 0]
  /\ idx' = [idx EXCEPT ![p] = idx[p] + 1]
  /\ UNCHANGED <<clock, runnerVars, workerVars, ctxVars,
                 pc, now, inWindow, tgt, made>>

\* worker.update, one round of its loop: ctx.ctx.update(ch) sends the
\* context's metrics_ in order, then the observation (name, result)
UpdateStep(p) ==
  /\ Running
  /\ UNCHANGED v1Vars
  /\ pc[p] = "update"
  /\ idx[p] <= Len(ctxs[tgt[p]])
  /\ LET w == tgt[p]
         s == ctxs[w][idx[p]]
     IN  /\ out' = [out EXCEPT ![p] = out[p] \o metrics_[w][s]]
         /\ obs' = [obs EXCEPT ![p] = Append(obs[p], <<s, result[w][s]>>)]
         /\ relAtUpd' = [relAtUpd EXCEPT ![p] =
                           relAtUpd[p] \/ relCount[w][s] > 0]
  /\ idx' = [idx EXCEPT ![p] = idx[p] + 1]
  /\ UNCHANGED <<clock, runnerVars, workerVars, ctxVars,
                 pc, now, inWindow, tgt, made>>

\* an updateV2 that releases the contexts itself before it returns
UpdateEndReleases(p) ==
  /\ Running
  /\ UNCHANGED v1Vars
  /\ pc[p] = "update"
  /\ idx[p] > Len(ctxs[tgt[p]])
  /\ pc' = [pc EXCEPT ![p] = "done"]
  /\ inWindow' = [inWindow EXCEPT ![p] = FALSE]
  /\ tgt' = [tgt EXCEPT ![p] = NoWorker]
  /\ made' = [made EXCEPT ![p] = NoWorker]
  /\ idx' = [idx EXCEPT ![p] = 0]
  /\ out' = [out EXCEPT ![p] = <<>>]
  /\ obs' = [obs EXCEPT ![p] = <<>>]
  /\ relAtUpd' = [relAtUpd EXCEPT ![p] = FALSE]
  /\ relCount' = [relCount EXCEPT ![tgt[p]] = [s \in Sources |->
                     IF s \in CtxOf(tgt[p]) THEN relCount[tgt[p]][s] + 1
                     ELSE relCount[tgt[p]][s]]]
  /\ UNCHANGED <<clock, runnerVars, workerVars, cpc, result, metrics_, fr,
                 filesJobStats, textParses, warnings, recycled, pool, gets,
                 now>>

\* worker.update after its loop: sv.Collect(ch); updateV2 returns and its
\* locals are gone
UpdateEnd(p) ==
  /\ Running
  /\ UNCHANGED v1Vars
  /\ pc[p] = "update"
  /\ idx[p] > Len(ctxs[tgt[p]])
  /\ pc' = [pc EXCEPT ![p] = "done"]
  /\ inWindow' = [inWindow EXCEPT ![p] = FALSE]
  /\ tgt' = [tgt EXCEPT ![p] = NoWorker]
  /\ made' = [made EXCEPT ![p] = NoWorker]
  /\ idx' = [idx EXCEPT ![p] = 0]
  /\ out' = [out EXCEPT ![p] = <<>>]
  /\ obs' = [obs EXCEPT ![p] = <<>>]
  /\ relAtUpd' = [relAtUpd EXCEPT ![p] = FALSE]
  /\ UNCHANGED <<clock, runnerVars, workerVars, ctxVars, now>>

(***************************************************************************)
(* worker: one collection pass.                                            *)
(***************************************************************************)
\* worker.run, the loop of its goroutine: the map is ranged over in any
\* order; for each source a runnerCtx is appended, with the context newCtx
\* makes, and its goroutine started
Spawn(w) ==
  /\ Running
  /\ UNCHANGED v1Vars
  /\ wpc[w] = "spawn"
  /\ \E order \in Orders(list) : ctxs' = [ctxs EXCEPT ![w] = order]
  /\ cpc' = [cpc EXCEPT ![w] = [s \in Sources |->
                                  IF s \in list THEN "collect" ELSE "none"]]
  /\ filesJobStats' = [filesJobStats EXCEPT ![w] = [s \in Sources |->
                          IF s \in list THEN EmptyMap ELSE NilMap]]
  /\ wpc' = [wpc EXCEPT ![w] = "wait"]
  /\ UNCHANGED <<clock, runnerVars, creat, wend, wg, rpc,
                 result, metrics_, fr, textParses, warnings, recycled, pool, gets,
                 relCount, reqVars>>

\* a newJobStates that hands the slice over with the length it has
newJobStatesKeepsLength(slice) == slice

\* pool.newJobStates: *out = (*out)[0:0]
newJobStates(slice) == SubSeq(slice, 1, 0)

\* sync.Pool.Get for each slice a collect takes: any slice of the pool, or
\* the empty one New makes
PoolGets(parses) == [1..Len(parses) -> pool \cup {<<>>}]

\* what the map holds for each path after the collect: the slice Get
\* returned when the path was parsed, as newJobStates left it, and the jobs
\* appended to it
StoredStates(memo, parses, got) ==
  [path \in DOMAIN memo |->
     newJobStates(got[CHOOSE k \in 1..Len(parses) : parses[k] = path])
       \o memo[path]]

\* a collect goroutine that returns on an error without wg.Done()
CollectSkipsDoneOnError(w, s) ==
  /\ Running
  /\ UNCHANGED v1Vars
  /\ cpc[w][s] = "collect"
  /\ LET r == collect(s, fsys[s])
     IN  /\ fr' = [fr EXCEPT ![w][s] = SubSeq(fsys[s], 1, r.read)]
         /\ \E got \in PoolGets(r.textParses) :
              /\ filesJobStats' = [filesJobStats EXCEPT ![w][s] =
                    [isNil |-> FALSE, paths |-> DOMAIN r.filesJobStats,
                     states |-> StoredStates(r.filesJobStats, r.textParses,
                                             got)]]
              /\ gets' = [gets EXCEPT ![w][s] = got]
              /\ pool' = pool \ {got[k] : k \in 1..Len(got)}
         /\ textParses' = [textParses EXCEPT ![w][s] = r.textParses]
         /\ warnings' = [warnings EXCEPT ![w][s] = r.warnings]
         /\ metrics_' = [metrics_ EXCEPT ![w][s] = r.metrics_]
         /\ result' = [result EXCEPT ![w][s] =
                          IF r.err THEN "error" ELSE "success"]
         /\ wg' = [wg EXCEPT ![w] =
                      IF r.panic \/ r.err THEN wg[w] ELSE wg[w] - 1]
         /\ cpc' = [cpc EXCEPT ![w][s] = IF r.panic THEN "panic" ELSE "done"]
  /\ UNCHANGED <<clock, runnerVars, creat, wend, wpc, ctxs, rpc,
                 recycled, relCount, reqVars>>

\* a collect whose error throws away what the sibling contexts hold
CollectAbortsSiblings(w, s) ==
  /\ Running
  /\ UNCHANGED v1Vars
  /\ cpc[w][s] = "collect"
  /\ LET r == collect(s, fsys[s])
     IN  /\ fr' = [fr EXCEPT ![w][s] = SubSeq(fsys[s], 1, r.read)]
         /\ \E got \in PoolGets(r.textParses) :
              /\ filesJobStats' = [filesJobStats EXCEPT ![w][s] =
                    [isNil |-> FALSE, paths |-> DOMAIN r.filesJobStats,
                     states |-> StoredStates(r.filesJobStats, r.textParses,
                                             got)]]
              /\ gets' = [gets EXCEPT ![w][s] = got]
              /\ pool' = pool \ {got[k] : k \in 1..Len(got)}
         /\ textParses' = [textParses EXCEPT ![w][s] = r.textParses]
         /\ warnings' = [warnings EXCEPT ![w][s] = r.warnings]
         /\ metrics_' = [metrics_ EXCEPT ![w] = [x \in Sources |->
                            IF x = s THEN r.metrics_
                            ELSE IF r.err THEN <<>> ELSE metrics_[w][x]]]
         /\ result' = [result EXCEPT ![w][s] =
                          IF r.err THEN "error" ELSE "success"]
         /\ wg' = [wg EXCEPT ![w] = IF r.panic THEN wg[w] ELSE wg[w] - 1]
         /\ cpc' = [cpc EXCEPT ![w][s] = IF r.panic THEN "panic" ELSE "done"]
  /\ UNCHANGED <<clock, runnerVars, creat, wend, wpc, ctxs, rpc,
                 recycled, relCount, reqVars>>

\* a collect goroutine that calls collect() again after an error
CollectRetriesOnError(w, s) ==
  /\ Running
  /\ UNCHANGED v1Vars
  /\ cpc[w][s] = "collect"
  /\ LET r == collect(s, fsys[s])
     IN  /\ fr' = [fr EXCEPT ![w][s] = SubSeq(fsys[s], 1, r.read)]
         /\ \E got \in PoolGets(r.textParses) :
              /\ filesJobStats' = [filesJobStats EXCEPT ![w][s] =
                    [isNil |-> FALSE, paths |-> DOMAIN r.filesJobStats,
                     states |-> StoredStates(r.filesJobStats, r.textParses,
                                             got)]]
              /\ gets' = [gets EXCEPT ![w][s] = got]
              /\ pool' = pool \ {got[k] : k \in 1..Len(got)}
         /\ textParses' = [textParses EXCEPT ![w][s] = r.textParses]
         /\ warnings' = [warnings EXCEPT ![w][s] = r.warnings]
         /\ metrics_' = [metrics_ EXCEPT ![w][s] = r.metrics_]
         /\ result' = [result EXCEPT ![w][s] =
                          IF r.err THEN "error" ELSE "success"]
         /\ wg' = [wg EXCEPT ![w] =
                      IF r.panic \/ (r.err /\ result[w][s] = "success")
                      THEN wg[w] ELSE wg[w] - 1]
         /\ cpc' = [cpc EXCEPT ![w][s] =
                       IF r.panic THEN "panic"
                       ELSE IF r.err /\ result[w][s] = "success"
                       THEN "collect" ELSE "done"]
  /\ UNCHANGED <<clock, runnerVars, creat, wend, wpc, ctxs, rpc,
                 recycled, relCount, reqVars>>

\* the samples of a sequence, last first
Backwards(ms) == [n \in 1..Len(ms) |-> ms[Len(ms) + 1 - n]]

\* a collect whose samples come in the order of the appends or in the
\* opposite one
CollectInAnyOrder(w, s) ==
  /\ Running
  /\ UNCHANGED v1Vars
  /\ cpc[w][s] = "collect"
  /\ LET r == collect(s, fsys[s])
     IN  /\ fr' = [fr EXCEPT ![w][s] = SubSeq(fsys[s], 1, r.read)]
         /\ \E got \in PoolGets(r.textParses) :
              /\ filesJobStats' = [filesJobStats EXCEPT ![w][s] =
                    [isNil |-> FALSE, paths |-> DOMAIN r.filesJobStats,
                     states |-> StoredStates(r.filesJobStats, r.textParses,
                                             got)]]
              /\ gets' = [gets EXCEPT ![w][s] = got]
              /\ pool' = pool \ {got[k] : k \in 1..Len(got)}
         /\ textParses' = [textParses EXCEPT ![w][s] = r.textParses]
         /\ warnings' = [warnings EXCEPT ![w][s] = r.warnings]
         /\ \E ms \in {r.metrics_, Backwards(r.metrics_)} :
              metrics_' = [metrics_ EXCEPT ![w][s] = ms]
         /\ result' = [result EXCEPT ![w][s] =
                          IF r.err THEN "error" ELSE "success"]
         /\ wg' = [wg EXCEPT ![w] = IF r.panic THEN wg[w] ELSE wg[w] - 1]
         /\ cpc' = [cpc EXCEPT ![w][s] = IF r.panic THEN "panic" ELSE "done"]
  /\ UNCHANGED <<clock, runnerVars, creat, wend, wpc, ctxs, rpc,
                 recycled, relCount, reqVars>>

\* the goroutine of one context: ctx.ctx.collect(), the result, wg.Done();
\* a panic inside collect is not recovered
Collect(w, s) ==
  /\ Running
  /\ UNCHANGED v1Vars
  /\ cpc[w][s] = "collect"
  /\ LET r == collect(s, fsys[s])
     IN  /\ fr' = [fr EXCEPT ![w][s] = SubSeq(fsys[s], 1, r.read)]
         /\ \E got \in PoolGets(r.textParses) :
              /\ filesJobStats' = [filesJobStats EXCEPT ![w][s] =
                    [isNil |-> FALSE, paths |-> DOMAIN r.filesJobStats,
                     states |-> StoredStates(r.filesJobStats, r.textParses,
                                             got)]]
              /\ gets' = [gets EXCEPT ![w][s] = got]
              /\ pool' = pool \ {got[k] : k \in 1..Len(got)}
         /\ textParses' = [textParses EXCEPT ![w][s] = r.textParses]
         /\ warnings' = [warnings EXCEPT ![w][s] = r.warnings]
         /\ metrics_' = [metrics_ EXCEPT ![w][s] = r.metrics_]
         /\ result' = [result EXCEPT ![w][s] =
                          IF r.err THEN "error" ELSE "success"]
         /\ wg' = [wg EXCEPT ![w] = IF r.panic THEN wg[w] ELSE wg[w] - 1]
         /\ cpc' = [cpc EXCEPT ![w][s] = IF r.panic THEN "panic" ELSE "done"]
  /\ UNCHANGED <<clock, runnerVars, creat, wend, wpc, ctxs, rpc,
                 recycled, relCount, reqVars>>

\* worker.run: w.wg.Wait() returns, w.end = time.Now()
WaitEnd(w) ==
  /\ Running
  /\ UNCHANGED v1Vars
  /\ wpc[w] = "wait"
  /\ wgWaitDone(w)
  /\ \E t \in TimeNow : clock' = t /\ wend' = [wend EXCEPT ![w] = t]
  /\ wpc' = [wpc EXCEPT ![w] = "dfwLock"]
  /\ UNCHANGED <<runnerVars, creat, wg, ctxs, rpc, ctxVars, reqVars>>

\* doneForWorker: r.mu.Lock()
DfwLock(w) ==
  /\ Running
  /\ UNCHANGED v1Vars
  /\ wpc[w] = "dfwLock"
  /\ mu = Free
  /\ mu' = <<"wrk", w>>
  /\ wpc' = [wpc EXCEPT ![w] = "dfwIn"]
  /\ UNCHANGED <<clock, MAX_WORKER, list, fsys, nReq, workers, lastSuccess, nCreated,
                 creat, wend, wg, ctxs, rpc, ctxVars, reqVars>>

\* a doneForWorker that keeps the recorded worker when that one ended later
DfwBodyKeepsLatest(w) ==
  /\ Running
  /\ UNCHANGED v1Vars
  /\ wpc[w] = "dfwIn"
  /\ lastSuccess' = IF lastSuccess # NoWorker /\ wend[lastSuccess] > wend[w]
                    THEN lastSuccess ELSE w
  /\ workers' = workers \ {w}
  /\ rpc' = [rpc EXCEPT ![w] = "release"]
  /\ mu' = Free
  /\ wpc' = [wpc EXCEPT ![w] = "done"]
  /\ UNCHANGED <<clock, MAX_WORKER, list, fsys, nReq, nCreated, creat, wend, wg, ctxs,
                 ctxVars, reqVars>>

\* a doneForWorker that records the worker and leaves it in r.workers
DfwBodyKeepsInFlight(w) ==
  /\ Running
  /\ UNCHANGED v1Vars
  /\ wpc[w] = "dfwIn"
  /\ lastSuccess' = w
  /\ rpc' = [rpc EXCEPT ![w] = "release"]
  /\ mu' = Free
  /\ wpc' = [wpc EXCEPT ![w] = "done"]
  /\ UNCHANGED <<clock, MAX_WORKER, list, fsys, nReq, workers, nCreated,
                 creat, wend, wg, ctxs, ctxVars, reqVars>>

\* doneForWorker under the lock: r.lastSuccess = w, delete(r.workers, w),
\* go w.release(), then the deferred Unlock
DfwBody(w) ==
  /\ Running
  /\ UNCHANGED v1Vars
  /\ wpc[w] = "dfwIn"
  /\ lastSuccess' = w
  /\ workers' = workers \ {w}
  /\ rpc' = [rpc EXCEPT ![w] = "release"]
  /\ mu' = Free
  /\ wpc' = [wpc EXCEPT ![w] = "done"]
  /\ UNCHANGED <<clock, MAX_WORKER, list, fsys, nReq, nCreated, creat, wend, wg, ctxs,
                 ctxVars, reqVars>>

\* a release that also drops the accumulated samples
ReleaseDropsSamples(w) ==
  /\ Running
  /\ UNCHANGED v1Vars
  /\ rpc[w] = "release"
  /\ relCount' = [relCount EXCEPT ![w] = [s \in Sources |->
                     IF s \in CtxOf(w) THEN relCount[w][s] + 1
                     ELSE relCount[w][s]]]
  /\ fr' = [fr EXCEPT ![w] = [s \in Sources |->
                     IF s \in CtxOf(w) THEN <<>> ELSE fr[w][s]]]
  /\ recycled' = [recycled EXCEPT ![w] = [s \in Sources |->
                     IF s \in CtxOf(w)
                     THEN recycled[w][s]
                            + Cardinality(filesJobStats[w][s].paths)
                     ELSE recycled[w][s]]]
  /\ pool' = pool \cup UNION {{filesJobStats[w][s].states[path] :
                                   path \in filesJobStats[w][s].paths} :
                                 s \in CtxOf(w)}
  /\ filesJobStats' = [filesJobStats EXCEPT ![w] = [s \in Sources |->
                     IF s \in CtxOf(w) THEN NilMap ELSE filesJobStats[w][s]]]
  /\ metrics_' = [metrics_ EXCEPT ![w] = [s \in Sources |->
                     IF s \in CtxOf(w) THEN <<>> ELSE metrics_[w][s]]]
  /\ rpc' = [rpc EXCEPT ![w] = "done"]
  /\ UNCHANGED <<clock, runnerVars, creat, wend, wg, wpc, ctxs,
                 cpc, result, textParses, warnings, gets, reqVars>>

\* worker.release, started by go w.release(): procfsV2Ctx.release on each
\* context of w.ctxs drops the job states and the reader's buffers;
\* metrics_ is not touched
Release(w) ==
  /\ Running
  /\ UNCHANGED v1Vars
  /\ rpc[w] = "release"
  /\ relCount' = [relCount EXCEPT ![w] = [s \in Sources |->
                     IF s \in CtxOf(w) THEN relCount[w][s] + 1
                     ELSE relCount[w][s]]]
  /\ fr' = [fr EXCEPT ![w] = [s \in Sources |->
                     IF s \in CtxOf(w) THEN <<>> ELSE fr[w][s]]]
  /\ recycled' = [recycled EXCEPT ![w] = [s \in Sources |->
                     IF s \in CtxOf(w)
                     THEN recycled[w][s]
                            + Cardinality(filesJobStats[w][s].paths)
                     ELSE recycled[w][s]]]
  /\ pool' = pool \cup UNION {{filesJobStats[w][s].states[path] :
                                   path \in filesJobStats[w][s].paths} :
                                 s \in CtxOf(w)}
  /\ filesJobStats' = [filesJobStats EXCEPT ![w] = [s \in Sources |->
                     IF s \in CtxOf(w) THEN NilMap ELSE filesJobStats[w][s]]]
  /\ rpc' = [rpc EXCEPT ![w] = "done"]
  /\ UNCHANGED <<clock, runnerVars, creat, wend, wg, wpc, ctxs,
                 cpc, result, metrics_, textParses, warnings, gets, reqVars>>

\* runner.Update in any other mode; updateV1: wg.Add(len(list)) and one
\* goroutine per source
V1Start(p) ==
  /\ Running
  /\ ~IsV2
  /\ pc[p] = "idle"
  /\ p <= nReq
  /\ \A q \in Requests : q < p => pc[q] # "idle"
  /\ v1wg' = [v1wg EXCEPT ![p] = Cardinality(list)]
  /\ pc' = [pc EXCEPT ![p] = "v1run"]
  /\ UNCHANGED <<clock, runnerVars, workerVars, ctxVars, CollectVersion, upd,
                 now, inWindow, tgt, made, idx, out, obs, relAtUpd>>

\* updateV1, the goroutine of one source: c.Update(ch), the observation,
\* wg.Done(); what Update sends is the v1 source's business
V1Update(p, s) ==
  /\ Running
  /\ pc[p] = "v1run"
  /\ s \in list
  /\ upd[p][s] = 0
  /\ upd' = [upd EXCEPT ![p][s] = upd[p][s] + 1]
  /\ obs' = [obs EXCEPT ![p] = Append(obs[p], <<s, "success">>)]
  /\ v1wg' = [v1wg EXCEPT ![p] = v1wg[p] - 1]
  /\ UNCHANGED <<clock, runnerVars, workerVars, ctxVars, CollectVersion,
                 pc, now, inWindow, tgt, made, idx, out, relAtUpd>>

\* updateV1: wg.Wait() returns, sv.Collect(ch); its locals are gone
V1End(p) ==
  /\ Running
  /\ pc[p] = "v1run"
  /\ v1wg[p] = 0
  /\ pc' = [pc EXCEPT ![p] = "done"]
  /\ upd' = [upd EXCEPT ![p] = [s \in Sources |-> 0]]
  /\ obs' = [obs EXCEPT ![p] = <<>>]
  /\ UNCHANGED <<clock, runnerVars, workerVars, ctxVars, CollectVersion, v1wg,
                 now, inWindow, tgt, made, idx, out, relAtUpd>>

Next ==
  \/ \E p \in Requests : Arrive(p)
  \/ \E p \in Requests : ReadLast(p)
  \/ \E p \in Requests : GrwLock(p)
  \/ \E p \in Requests : GrwBody(p)
  \/ \E p \in Requests : Wait(p)
  \/ \E p \in Requests : UpdateStep(p)
  \/ \E p \in Requests : UpdateEnd(p)
  \/ \E w \in WorkerIds : Spawn(w)
  \/ \E w \in WorkerIds : \E s \in Sources : Collect(w, s)
  \/ \E w \in WorkerIds : WaitEnd(w)
  \/ \E w \in WorkerIds : DfwLock(w)
  \/ \E w \in WorkerIds : DfwBody(w)
  \/ \E w \in WorkerIds : Release(w)

\* the steps of either mode
NextAny ==
  \/ Next
  \/ \E p \in Requests : V1Start(p)
  \/ \E p \in Requests : \E s \in Sources : V1Update(p, s)
  \/ \E p \in Requests : V1End(p)

Spec == Init /\ [][Next]_vars

SpecV1 == InitV1 /\ [][NextAny]_vars

SpecPass == InitPass /\ [][Next]_vars

SpecCollect == InitCollect /\ [][Next]_vars

SpecJobs == InitJobs /\ [][Next]_vars
SpecParse == InitParse /\ [][Next]_vars
SpecBurst == InitBurst /\ [][Next]_vars
SpecTwice == InitTwice /\ [][Next]_vars
SpecFlag == InitFlag /\ [][Next]_vars
SpecShort == InitShort /\ [][Next]_vars

\* the Go scheduler runs every goroutine that can take a step: the
\* goroutine of worker.run gets past wg.Wait() once the counter is zero,
\* is granted the mutex once it is free, and leaves doneForWorker; a
\* request inside getRunnerWorker leaves it and unlocks
Fairness ==
  /\ \A w \in WorkerIds :
       WF_vars(WaitEnd(w)) /\ WF_vars(DfwLock(w)) /\ WF_vars(DfwBody(w))
  /\ \A p \in Requests : WF_vars(GrwBody(p))

SpecLive == InitLive /\ [][Next]_vars /\ Fairness

\* a request that can take a step takes it: it returns from w.wait() once
\* the counter is zero, leaves getRunnerWorker, and worker.update goes on
\* as long as the channel is read; nothing is assumed of the workers
RequestFairness ==
  \A p \in Requests :
    /\ WF_vars(GrwBody(p)) /\ WF_vars(Wait(p))
    /\ WF_vars(UpdateStep(p)) /\ WF_vars(UpdateEnd(p))

SpecWaits == InitWaits /\ [][Next]_vars /\ RequestFairness

(***************************************************************************)
(* Properties.                                                             *)
(***************************************************************************)
\* worker.update over a finished worker: the metrics_ of its contexts, in
\* the order of worker.ctxs
RECURSIVE PassSamplesFrom(_, _)
PassSamplesFrom(w, k) ==
  IF k > Len(ctxs[w]) THEN <<>>
  ELSE metrics_[w][ctxs[w][k]] \o PassSamplesFrom(w, k + 1)

PassSamples(w) == PassSamplesFrom(w, 1)

\* the workers created whose completion doneForWorker has not yet recorded
InFlight == {w \in WorkerIds : wpc[w] \notin {"none", "done"}}

\* C1: with MAX_WORKER = K >= 1 the in-flight set never holds more than K
\* workers; a request that finds K workers in flight leaves the set as it is
\* and creates no worker; and the set holds a worker exactly from its
\* creation until doneForWorker has recorded its completion.
C1_InFlightBound ==
  /\ [](Cardinality(workers) <= MAX_WORKER /\ workers = InFlight)
  /\ [][\A p \in Requests :
          (pc[p] = "grwIn" /\ pc'[p] = "wait"
             /\ Cardinality(workers) >= MAX_WORKER)
          => /\ workers' = workers
             /\ nCreated' = nCreated
             /\ made'[p] = NoWorker
             /\ tgt'[p] \in workers]_vars

\* C1, its case: two workers allowed, two in flight, and a request that
\* found them attached to one of them without creating a third
C1_Witness ==
  /\ MAX_WORKER = 2
  /\ Cardinality(workers) = 2
  /\ \E p \in Requests :
       pc[p] = "wait" /\ made[p] = NoWorker /\ tgt[p] \in workers

\* C2 as stated: a request that finds the set at capacity attaches to the
\* in-flight worker created earliest.
C2_AttachesOldest ==
  [][\A p \in Requests :
       (pc[p] = "grwIn" /\ pc'[p] = "wait" /\ AtCapacity(workers))
       => /\ tgt'[p] \in workers
          /\ \A v \in workers : creat[tgt'[p]] <= creat[v]]_vars

\* C2, amended: a request that finds the set at capacity attaches to an
\* in-flight worker that no other in-flight worker was created after (the
\* newest one; with equal timestamps, any of the newest).
C2_AttachesNewest ==
  [][\A p \in Requests :
       (pc[p] = "grwIn" /\ pc'[p] = "wait" /\ AtCapacity(workers))
       => /\ tgt'[p] \in workers
          /\ made'[p] = NoWorker
          /\ \A v \in workers : creat[v] <= creat[tgt'[p]]]_vars

\* C2, its case: a request waits on a worker it did not create while a
\* worker created strictly earlier is still in flight
C2_Witness ==
  \E p \in Requests :
    /\ pc[p] = "wait"
    /\ made[p] = NoWorker
    /\ tgt[p] \in workers
    /\ \E v \in workers : creat[v] < creat[tgt[p]]

C4_AccessUnderMutex ==
  [][/\ \A p \in Requests :
          (pc[p] = "readLast" /\ pc'[p] # "readLast") => mu = <<"req", p>>
     /\ \A p \in Requests :
          (pc[p] = "grwIn" /\ pc'[p] # "grwIn") => mu = <<"req", p>>
     /\ \A w \in WorkerIds :
          (wpc[w] = "dfwIn" /\ wpc'[w] # "dfwIn") => mu = <<"wrk", w>>]_vars

\* C5 as stated: no request updates from a context on which release() has
\* already run.
C5_NoUpdateAfterRelease == \A p \in Requests : ~relAtUpd[p]

\* C5, amended: release() of a worker starts only after every collect() of
\* the worker has returned and doneForWorker has recorded its completion;
\* an update() that runs after release() on the same context still sends
\* the whole sample list of the pass.
C5_ReleaseAfterCollect ==
  /\ \A w \in WorkerIds :
       rpc[w] # "none" =>
         /\ wpc[w] = "done"
         /\ w \notin workers
         /\ \A s \in list : cpc[w][s] = "done"
  /\ \A p \in Requests :
       (relAtUpd[p] /\ idx[p] > Len(ctxs[tgt[p]]))
         => out[p] = PassSamples(tgt[p])

\* C5, its case: a request has updated from a released context and has
\* published the samples of the pass in full
C5_Witness ==
  \E p \in Requests :
    /\ relAtUpd[p]
    /\ idx[p] > Len(ctxs[tgt[p]])
    /\ rpc[tgt[p]] = "done"
    /\ Len(out[p]) > 0
    /\ out[p] = PassSamples(tgt[p])

\* C6: release() has run exactly once on every context of every worker
\* whose release goroutine has finished and never on any other context,
\* and a worker has a release goroutine exactly when doneForWorker has
\* recorded it.
C6_ReleasedExactlyOnce ==
  \A w \in WorkerIds :
    /\ rpc[w] # "none" <=> wpc[w] = "done"
    /\ \A s \in Sources :
         relCount[w][s] = IF rpc[w] = "done" /\ s \in list THEN 1 ELSE 0

\* C6, its case: both passes are over, one source of the first failed, the
\* requests have returned, and each context was released once
C6_Witness ==
  /\ \A w \in WorkerIds : rpc[w] = "done"
  /\ \E s \in list : result[1][s] = "error"
  /\ \A p \in 1..nReq : pc[p] = "done"
  /\ \A w \in WorkerIds : \A s \in list : relCount[w][s] = 1

\* C7: one update() sends exactly metrics_ of its context, in order, and
\* leaves metrics_, filesJobStats and the file reader as they were; two
\* requests that have updated from the same worker have sent the same
\* sequence.
C7_UpdateReadOnly ==
  /\ [][\A p \in Requests :
          (pc[p] = "update" /\ idx'[p] = idx[p] + 1)
          => /\ out'[p] = out[p] \o metrics_[tgt[p]][ctxs[tgt[p]][idx[p]]]
             /\ metrics_' = metrics_
             /\ filesJobStats' = filesJobStats
             /\ fr' = fr]_vars
  /\ [](\A p, q \in Requests :
          (/\ pc[p] = "update" /\ pc[q] = "update"
           /\ tgt[p] = tgt[q]
           /\ idx[p] > Len(ctxs[tgt[p]]) /\ idx[q] > Len(ctxs[tgt[q]]))
          => out[p] = out[q])

\* C7, its case: two requests have updated from the same worker, whose
\* files all parse, and both hold the full sample list
C7_Witness ==
  \E p, q \in Requests :
    /\ p # q
    /\ pc[p] = "update" /\ pc[q] = "update"
    /\ tgt[p] = tgt[q]
    /\ idx[p] > Len(ctxs[tgt[p]]) /\ idx[q] > Len(ctxs[tgt[q]])
    /\ Len(out[p]) = NumSources * NumFiles
    /\ out[q] = out[p]
    /\ PassSamples(tgt[p]) = out[p]

\* the samples among ms that source s produced
OfSource(ms, s) == SelectSeq(ms, LAMBDA m : m[1] = s)

\* whether a file read on its own parses without error
ParsesAlone(s, f, i) == ~parseFile(s, f, i, <<>>).err

\* the files of source s that do not parse
BadFiles(s) == {i \in 1..NumFiles : ~ParsesAlone(s, fsys[s][i], i)}

\* the first file of source s that does not parse, NumFiles + 1 if all do
FirstBad(s) ==
  IF BadFiles(s) = {} THEN NumFiles + 1
  ELSE CHOOSE i \in BadFiles(s) : \A j \in BadFiles(s) : i <= j

\* the samples of the files i..n of source s, each parsed on its own
RECURSIVE SamplesOfFiles(_, _, _)
SamplesOfFiles(s, i, n) ==
  IF i > n THEN <<>>
  ELSE parseFile(s, fsys[s][i], i, <<>>).metrics_ \o SamplesOfFiles(s, i + 1, n)

\* C8: a context that has finished holds the samples and the result its own
\* files give, whatever its siblings met; a worker whose completion is
\* recorded has every context finished; and a request that has updated
\* from a worker has sent the samples and recorded the result of every
\* source.
C8_SiblingsUnaffected ==
  /\ \A w \in WorkerIds : \A s \in list :
       cpc[w][s] = "done" =>
         /\ metrics_[w][s] = collect(s, fsys[s]).metrics_
         /\ result[w][s] = IF BadFiles(s) = {} THEN "success" ELSE "error"
  /\ \A w \in WorkerIds :
       wpc[w] = "done" => \A s \in list : cpc[w][s] = "done"
  /\ \A p \in Requests :
       (pc[p] = "update" /\ idx[p] > Len(ctxs[tgt[p]])) =>
         \A s \in list :
           /\ OfSource(out[p], s) = collect(s, fsys[s]).metrics_
           /\ \E k \in 1..Len(obs[p]) :
                obs[p][k] = <<s, result[tgt[p]][s]>>

\* C8, its case: in a recorded worker one source failed on its first file,
\* its sibling succeeded, and a request has published every sample of the
\* sibling
C8_Witness ==
  \E p \in Requests : \E s, x \in list :
    /\ pc[p] = "update"
    /\ idx[p] > Len(ctxs[tgt[p]])
    /\ wpc[tgt[p]] = "done"
    /\ result[tgt[p]][s] = "error"
    /\ FirstBad(s) = 1
    /\ result[tgt[p]][x] = "success"
    /\ Len(OfSource(out[p], x)) = NumFiles

\* C9 as stated: what a request has sent holds no sample of a source whose
\* collect() returned an error.
C9_NoFailedSourceSamples ==
  \A p \in Requests :
    pc[p] = "update" =>
      \A k \in 1..Len(out[p]) : result[tgt[p]][out[p][k][1]] # "error"

\* C9, amended: a request that has updated from a pass has sent, for every
\* source, failed or not, exactly the samples the source had appended when
\* its collect() returned: for a failed source, those of the files before
\* the first that does not parse and those that file gave before its
\* malformed value.
C9_PublishesAccumulated ==
  \A p \in Requests :
    (pc[p] = "update" /\ idx[p] > Len(ctxs[tgt[p]])) =>
      /\ out[p] = PassSamples(tgt[p])
      /\ \A s \in list :
           /\ OfSource(out[p], s) = metrics_[tgt[p]][s]
           /\ result[tgt[p]][s] = "error" =>
                /\ FirstBad(s) <= NumFiles
                /\ OfSource(out[p], s) = SamplesOfFiles(s, 1, FirstBad(s))

\* C9, its case: a source failed on its second file and a request has sent
\* the sample of its first file together with the samples of its sibling
C9_Witness ==
  \E p \in Requests : \E s, x \in list :
    /\ pc[p] = "update"
    /\ idx[p] > Len(ctxs[tgt[p]])
    /\ result[tgt[p]][s] = "error"
    /\ FirstBad(s) = 2
    /\ OfSource(out[p], s) = <<Sample(s, 1, "", "", 1)>>
    /\ result[tgt[p]][x] = "success"
    /\ Len(OfSource(out[p], x)) = NumFiles

\* C10 as stated: when collect() of a source has returned, every file of
\* the source that parses on its own has been read and has its samples in
\* metrics_, whatever the other files of the source hold.
C10_ErrorAbortsOnlyFile ==
  \A w \in WorkerIds : \A s \in list :
    cpc[w][s] = "done" =>
      \A i \in 1..NumFiles :
        ParsesAlone(s, fsys[s][i], i) =>
          /\ Len(fr[w][s]) >= i \/ rpc[w] # "none"
          /\ \A k \in 1..Len(parseFile(s, fsys[s][i], i, <<>>).metrics_) :
               \E j \in 1..Len(metrics_[w][s]) :
                 metrics_[w][s][j] = parseFile(s, fsys[s][i], i, <<>>).metrics_[k]

\* C10, amended: a numeric parse error ends the collect() of its source:
\* the source keeps the samples of the files before the malformed one and
\* those the malformed file gave before its malformed value, reads no file
\* after it, and is recorded as failed; a sibling source holds the samples
\* of its own files all the same.
C10_ErrorEndsSource ==
  \A w \in WorkerIds : \A s \in list :
    cpc[w][s] = "done" =>
      /\ metrics_[w][s] =
           SamplesOfFiles(s, 1, IF FirstBad(s) > NumFiles THEN NumFiles
                                ELSE FirstBad(s))
      /\ rpc[w] = "none" =>
           Len(fr[w][s]) = (IF FirstBad(s) > NumFiles THEN NumFiles
                            ELSE FirstBad(s))
      /\ result[w][s] = "error" <=> FirstBad(s) <= NumFiles

\* C10, its case: the first file of a source is a histogram whose second
\* row is malformed and its second file parses; the source holds the two
\* samples of the first row and nothing of the second file, and its
\* sibling holds the samples of all its files
C10_Witness ==
  \E w \in WorkerIds :
    /\ wpc[w] = "done"
    /\ fsys[1][1] = BrwFile(<<GoodRow, BadRow>>)
    /\ fsys[1][2] = StatsFile(1, <<GoodStats>>)
    /\ result[w][1] = "error"
    /\ metrics_[w][1] = <<Sample(1, 1, "read", "4096", 1),
                          Sample(1, 1, "write", "4096", 2)>>
    /\ result[w][2] = "success"
    /\ Len(metrics_[w][2]) = NumFiles

\* C11 as stated: whatever the files hold, no collect() ends in a panic.
C11_NeverPanics ==
  \A w \in WorkerIds : \A s \in Sources : cpc[w][s] # "panic"

\* C12 as stated: the last-successful pointer refers to the recorded worker
\* with the latest end timestamp.
C12_LastSuccessLatestEnd ==
  lastSuccess # NoWorker =>
    \A w \in WorkerIds : wpc[w] = "done" => wend[w] <= wend[lastSuccess]

\* C12, amended: the last-successful pointer is nil until a worker is
\* recorded and a recorded worker afterwards; every doneForWorker sets it
\* to its own worker, whatever the end timestamps are, and nothing else
\* changes it: it refers to the worker recorded last.
C12_LastSuccessLastRecorded ==
  /\ [](/\ lastSuccess = NoWorker <=> \A w \in WorkerIds : wpc[w] # "done"
        /\ lastSuccess # NoWorker =>
             wpc[lastSuccess] = "done" /\ wend[lastSuccess] # NoTime)
  /\ [][/\ \A w \in WorkerIds :
             (wpc[w] = "dfwIn" /\ wpc'[w] = "done") => lastSuccess' = w
        /\ lastSuccess' # lastSuccess =>
             wpc[lastSuccess'] = "dfwIn" /\ wpc'[lastSuccess'] = "done"]_vars

\* C12, its case: the pointer refers to a worker that ended before another
\* recorded worker did
C12_Witness ==
  /\ lastSuccess # NoWorker
  /\ \E w \in WorkerIds : wpc[w] = "done" /\ wend[w] > wend[lastSuccess]

\* C13: a worker whose collect() calls have all returned, with success or
\* with an error, is eventually recorded: it is the last successful worker,
\* it is out of the in-flight set and its release goroutine is started.
C13_CompletionRecorded ==
  \A w \in WorkerIds :
    (wpc[w] = "wait" /\ \A s \in list : cpc[w][s] = "done")
      ~> (/\ wpc[w] = "done"
          /\ lastSuccess = w
          /\ w \notin workers
          /\ rpc[w] # "none")

\* C13, its case: a worker with a failed source is recorded as last
\* successful, is out of the in-flight set and has its release started
C13_Witness ==
  \E w \in WorkerIds :
    /\ wpc[w] = "done"
    /\ \E s \in list : result[w][s] = "error"
    /\ lastSuccess = w
    /\ w \notin workers
    /\ rpc[w] # "none"

\* C14: in any mode other than v2 a request makes its own pass: it calls
\* Update once on each source and returns only when all have returned; it
\* takes no part in the v2 bookkeeping (no worker, no last successful
\* worker, no mutex), and requests run their passes side by side whatever
\* MAX_WORKER is.
C14_LegacyModeOwnPass ==
  CollectVersion # "v2" =>
    /\ workers = {} /\ lastSuccess = NoWorker /\ nCreated = 0 /\ mu = Free
    /\ \A p \in Requests :
         /\ pc[p] \in {"idle", "v1run", "done"}
         /\ tgt[p] = NoWorker /\ made[p] = NoWorker
         /\ \A s \in Sources : upd[p][s] <= 1
         /\ pc[p] = "v1run" =>
              v1wg[p] = Cardinality({s \in list : upd[p][s] = 0})

\* C14, its case: with one worker allowed, two requests are in their own
\* pass at once and each has called Update once on every source
C14_Witness ==
  /\ CollectVersion # "v2"
  /\ MAX_WORKER = 1
  /\ \E p, q \in Requests :
       /\ p # q
       /\ pc[p] = "v1run" /\ pc[q] = "v1run"
       /\ v1wg[p] = 0 /\ v1wg[q] = 0
       /\ \A s \in list : upd[p][s] = 1 /\ upd[q][s] = 1

\* ---- the job_stats claims: what a finished context holds, against the
\* text of the file

\* the contexts that have collected: worker and source
Collected == {c \in WorkerIds \X Sources : cpc[c[1]][c[2]] = "done"}

\* the lines of a block after the first that carry a key, and the first
\* number on the line of a key
HasKey(block, key) == \E k \in 2..Len(block) : block[k].key = key
LineOf(block, key) ==
  block[CHOOSE k \in 2..Len(block) : block[k].key = key]
FirstInt(block, key) == ParseInt(LineOf(block, key).nums[1]).val

\* the blocks of a file that became a job, by position
ParsedBlocks(f) ==
  {k \in 1..Len(f.blocks) : ~parsingFromText(ZeroJobState, f.blocks[k]).err}
JobIdOf(block) == TrimSpace(block[1].text)

\* the samples of entry i of a source with an operation and a job id
SamplesWith(ms, i, op, jobid) ==
  {n \in 1..Len(ms) : ms[n][2] = i /\ ms[n][3] = op /\ ms[n][4] = jobid}

\* C15: for an operation metric, every parsed job and every one of the 22
\* keys: the context holds one sample (job id, key) for each parsed block
\* of that job id that has the key, with the value of the line (0
\* included), and none for a block that omits the key.
C15_OperationSamples ==
  \A c \in Collected :
    LET s == c[2]
        ms == metrics_[c[1]][s]
    IN  \A i \in 1..Len(fsys[s]) :
          LET f == fsys[s][i]
          IN  (f.filename = "job_stats" /\ f.multi) =>
                \A j \in 1..Len(jobStateKeys), b \in ParsedBlocks(f) :
                  LET key == jobStateKeys[j]
                      id == JobIdOf(f.blocks[b])
                      with == {k \in ParsedBlocks(f) :
                                 /\ JobIdOf(f.blocks[k]) = id
                                 /\ HasKey(f.blocks[k], key)}
                  IN  /\ Cardinality(SamplesWith(ms, i, key, id))
                           = Cardinality(with)
                      /\ \A n \in SamplesWith(ms, i, key, id) :
                           \E k \in with :
                             ms[n][5] = FirstInt(f.blocks[k], key)

\* C15, its case: a job with "close" of 0 and no "punch" line has given
\* a sample of 0 for close and none for punch
C15_Witness ==
  \E c \in Collected :
    \E i \in 1..Len(fsys[c[2]]) :
      /\ fsys[c[2]][i].multi
      /\ fsys[c[2]][i].blocks = <<FullJob>>
      /\ \E n \in SamplesWith(metrics_[c[1]][c[2]], i, "close", "job1") :
           metrics_[c[1]][c[2]][n][5] = 0
      /\ SamplesWith(metrics_[c[1]][c[2]], i, "punch", "job1") = {}

\* C16: the absent value is never a sample: every sample a context holds
\* from a job_stats file is 0 or more, so a job whose block has no
\* read_bytes (write_bytes) line gives no read_bytes (write_bytes) sample.
C16_NoSentinelEmitted ==
  \A c \in Collected :
    LET ms == metrics_[c[1]][c[2]]
    IN  \A n \in 1..Len(ms) :
          fsys[c[2]][ms[n][2]].filename = "job_stats" => ms[n][5] >= 0

\* the contexts that have collected and still hold their map
Holding == {c \in Collected : ~filesJobStats[c[1]][c[2]].isNil}

\* a block with job_id: on its first line; a text whose blocks are
\* complete but for the job_id line of some
HasJobId(block) == block[1].key = "job_id"
OnlyIdMissing(blocks) ==
  \A k \in 1..Len(blocks) : blocks[k] \in {FullJob, NoIoJob, NoIdJob}

\* the job ids of a list of job states, and of the blocks with a job_id
IdsOfJobs(jobs) == [k \in 1..Len(jobs) |-> jobs[k].jobid]
IdsOfBlocks(blocks) ==
  LET with == SelectSeq(blocks, HasJobId)
  IN  [k \in 1..Len(with) |-> JobIdOf(with[k])]

\* the blocks without job_id over the texts a context has split
RECURSIVE WarnsExpected(_, _, _)
WarnsExpected(files, parses, k) ==
  IF k > Len(parses) THEN 0
  ELSE LET f == files[CHOOSE i \in 1..Len(files) : files[i].path = parses[k]]
       IN  Len(SelectSeq(f.blocks, LAMBDA b : ~HasJobId(b)))
             + WarnsExpected(files, parses, k + 1)

\* C17: a job_stats text whose blocks are complete but for the job_id
\* line of some: collect returns no error, the map holds for its path the
\* jobs of the blocks with a job_id, in the order of the file, the samples
\* are of these jobs only, and every block without job_id is logged once
\* for each time the text is split.
C17_JobIdIsolation ==
  \A c \in Holding :
    LET w == c[1]
        s == c[2]
        ms == metrics_[w][s]
    IN  (\A i \in 1..Len(fsys[s]) :
           fsys[s][i].filename = "job_stats" /\ OnlyIdMissing(fsys[s][i].blocks))
        =>
        /\ result[w][s] = "success"
        /\ warnings[w][s] = WarnsExpected(fsys[s], textParses[w][s], 1)
        /\ \A i \in 1..Len(fsys[s]) :
             LET f == fsys[s][i]
             IN  /\ Len(f.blocks) > 0 =>
                      /\ f.path \in filesJobStats[w][s].paths
                      /\ IdsOfJobs(filesJobStats[w][s].states[f.path])
                           = IdsOfBlocks(f.blocks)
                 /\ (f.multi \/ f.pattern # "") =>
                      {ms[n][4] : n \in {m \in 1..Len(ms) : ms[m][2] = i}}
                        = {JobIdOf(f.blocks[k]) :
                             k \in {j \in 1..Len(f.blocks) :
                                      HasJobId(f.blocks[j])}}

\* C17, its case: three blocks, the second without job_id: the map holds
\* the jobs of blocks 1 and 3 and one warning was logged
C17_Witness ==
  \E c \in Holding :
    /\ fsys[c[2]][1].blocks = <<FullJob, NoIdJob, NoIoJob>>
    /\ result[c[1]][c[2]] = "success"
    /\ IdsOfJobs(filesJobStats[c[1]][c[2]].states["p1"]) = <<"job1", "job3">>
    /\ warnings[c[1]][c[2]] >= 1

\* the first four numbers on the line of a key
FirstFour(block, key) ==
  [n \in 1..4 |-> ParseInt(LineOf(block, key).nums[n]).val]

\* what the text of a block says of its job
JobMatchesBlock(js, block) ==
  /\ js.jobid = JobIdOf(block)
  /\ \A j \in 1..Len(jobStateKeys) :
       js.vals[j] = IF HasKey(block, jobStateKeys[j])
                    THEN FirstInt(block, jobStateKeys[j]) ELSE Absent
  /\ HasKey(block, "read_bytes") =>
       js.readbytes = FirstFour(block, "read_bytes")
  /\ HasKey(block, "write_bytes") =>
       js.writebytes = FirstFour(block, "write_bytes")

\* C18: every job a context holds is that of a block parsingFromText
\* accepted, in order, and it holds for each of the 22 keys the first
\* integer of the key's line, or -1 if the block has no such line, in
\* readbytes and writebytes the first four integers of their lines, and
\* as jobid the trimmed text after job_id:.
C18_JobStateFromText ==
  \A c \in Holding :
    \A i \in 1..Len(fsys[c[2]]) :
      LET f == fsys[c[2]][i]
          ok == SelectSeq(f.blocks, LAMBDA b : ~parsingFromText(ZeroJobState, b).err)
      IN  (f.filename = "job_stats" /\ Len(f.blocks) > 0) =>
            LET jobs == filesJobStats[c[1]][c[2]].states[f.path]
            IN  /\ Len(jobs) = Len(ok)
                /\ \A k \in 1..Len(ok) : JobMatchesBlock(jobs[k], ok[k])

\* C18, its case: the complete block (five numbers on read_bytes, two on
\* open, no punch) became a job with the first four, the first, and -1
C18_Witness ==
  \E c \in Holding :
    /\ fsys[c[2]][1].blocks = <<FullJob>>
    /\ LET js == filesJobStats[c[1]][c[2]].states["p1"][1]
       IN  /\ js.jobid = "job1"
           /\ js.readbytes = <<2, 1, 5, 10>>
           /\ js.writebytes = <<1, 0, 2, 2>>
           /\ js.vals[KeyIndex("open")] = 1
           /\ js.vals[KeyIndex("close")] = 0
           /\ js.vals[KeyIndex("punch")] = Absent

\* a block with a read_bytes or write_bytes line of fewer than four
\* numbers, or with a line of one of the 22 keys without a number
ShortLine(block) ==
  \E k \in 2..Len(block) :
    \/ block[k].key \in {"read_bytes", "write_bytes"}
         /\ Len(block[k].nums) < 4
    \/ KeyIndex(block[k].key) # 0 /\ Len(block[k].nums) = 0

\* a text whose blocks are complete but for such lines
OnlyShortLines(blocks) ==
  \A k \in 1..Len(blocks) :
    \/ blocks[k] \in {FullJob, NoIoJob}
    \/ HasJobId(blocks[k]) /\ ShortLine(blocks[k])

\* C19: a block with a read_bytes or write_bytes line of fewer than four
\* numbers, or with a line of a scalar key without a number, gives no job:
\* the list of its path holds the jobs of the other blocks, in order, and
\* the samples are of these jobs only; collect does not fail.
C19_ShortLineSkipsJob ==
  \A c \in Holding :
    LET w == c[1]
        s == c[2]
        ms == metrics_[w][s]
    IN  \A i \in 1..Len(fsys[s]) :
          LET f == fsys[s][i]
              rest == SelectSeq(f.blocks, LAMBDA b : ~ShortLine(b))
          IN  (/\ f.filename = "job_stats"
               /\ Len(f.blocks) > 0
               /\ OnlyShortLines(f.blocks))
              =>
              /\ result[w][s] = "success"
              /\ IdsOfJobs(filesJobStats[w][s].states[f.path])
                   = [k \in 1..Len(rest) |-> JobIdOf(rest[k])]
              /\ \A n \in 1..Len(ms) :
                   ms[n][2] = i =>
                     \E k \in 1..Len(rest) : ms[n][4] = JobIdOf(rest[k])
              /\ (f.multi /\ Len(rest) > 0) =>
                   \E n \in 1..Len(ms) : ms[n][2] = i

\* C19, its case: three blocks, the second with three numbers on
\* read_bytes: the list holds blocks 1 and 3 and no sample is of job2
C19_Witness ==
  \E c \in Holding :
    /\ fsys[c[2]][1].blocks = <<FullJob, ShortReadJob, NoIoJob>>
    /\ fsys[c[2]][1].multi
    /\ IdsOfJobs(filesJobStats[c[1]][c[2]].states["p1"]) = <<"job1", "job3">>
    /\ SamplesWith(metrics_[c[1]][c[2]], 1, "open", "job3") # {}
    /\ SamplesWith(metrics_[c[1]][c[2]], 1, "open", "job2") = {}

\* C20: within one pass a context splits the text of a job_stats path into
\* blocks at most once, however many metrics read the path and whatever
\* the text is; every later reference finds the path in the map.
C20_ParsedOncePerPath ==
  \A c \in Collected :
    LET parses == textParses[c[1]][c[2]]
    IN  \A a \in 1..Len(parses), b \in 1..Len(parses) :
          a # b => parses[a] # parses[b]

\* the slices a context has taken from the pool: parseJobStatsText calls
\* newJobStates each time the path is not in the map
Acquired(w, s) == Len(textParses[w][s])

\* C21: a context that has been released has put back in the pool every
\* job-state slice it took, once: none is kept out of the pool, whatever
\* the text of the file, and none goes back twice.
C21_PoolBalanced ==
  \A w \in WorkerIds, s \in Sources :
    /\ recycled[w][s] <= Acquired(w, s)
    /\ relCount[w][s] > 0 => recycled[w][s] = Acquired(w, s)

\* ---- the parsers, file by file: the first file of the source is the
\* one parsed, the second a scalar file that parses

\* the samples a context holds from the file in position i
SamplesOfFile(ms, i) == SelectSeq(ms, LAMBDA m : m[2] = i)

\* a file without the section its metric reads: a histogram without the
\* heading of the metric, a job_stats text without a job, a stats text
\* without a line of the field
MissingSection(f) ==
  \/ f.filename = "brw_stats"
       /\ \A k \in 1..Len(f.lines) :
            Len(f.lines[k]) = 0 \/ f.lines[k][1] # f.heading
  \/ f.filename = "job_stats" /\ f.blocks = <<>>
  \/ f.filename = "stats" /\ ~f.multi
       /\ \A k \in 1..Len(f.lines) :
            Len(f.lines[k]) = 0 \/ f.lines[k][1] # f.pattern

\* C22: a file without the section of its metric is no error: the
\* context has no sample of the file, it went on to the next file and
\* holds its sample, and its result is success.
C22_MissingSectionNoError ==
  \A c \in Collected :
    LET ms == metrics_[c[1]][c[2]]
        files == fsys[c[2]]
    IN  \A i \in 1..Len(files) :
          (MissingSection(files[i])
             /\ \A k \in 1..Len(files) : k # i => files[k] = SingleFile("1"))
          =>
          /\ result[c[1]][c[2]] = "success"
          /\ SamplesOfFile(ms, i) = <<>>
          /\ \A k \in 1..Len(files) :
               k # i => SamplesOfFile(ms, k) = <<Sample(c[2], k, "", "", 1)>>

\* C22, its case: a histogram file with the block of another metric was
\* read, gave nothing, and the scalar file after it gave its sample
C22_Witness ==
  \E c \in Collected :
    /\ fsys[c[2]][1] = NoHeadingFile
    /\ result[c[1]][c[2]] = "success"
    /\ metrics_[c[1]][c[2]] = <<Sample(c[2], 2, "", "", 1)>>

\* the name and the label values of a sample: all but its value
LabelsOf(m) == <<m[1], m[2], m[3], m[4]>>

\* C23: within one pass no two samples published to a request have the
\* same name and label values: a context whose parsing gave such a pair
\* has the result error, and the pair is not sent.
C23_NoDuplicateSamples ==
  /\ \A p \in Requests :
       \A a \in 1..Len(out[p]), b \in 1..Len(out[p]) :
         a # b => LabelsOf(out[p][a]) # LabelsOf(out[p][b])
  /\ \A c \in Collected :
       LET ms == metrics_[c[1]][c[2]]
       IN  (\E a \in 1..Len(ms), b \in 1..Len(ms) :
              a # b /\ LabelsOf(ms[a]) = LabelsOf(ms[b]))
           => result[c[1]][c[2]] = "error"

\* the samples the rows of a block stand for: read and write for a row of
\* six fields or more, read alone for a row of fewer; the block ends at
\* the first empty line
RowSamples(s, i, row) ==
  LET size == convertToBytes(StripColon(row[1]))
      read == IF Len(row) >= 2 THEN ParseFloat(row[2]).val ELSE 0
  IN  IF Len(row) >= 6
      THEN <<Sample(s, i, "read", size, read),
             Sample(s, i, "write", size, ParseFloat(row[6]).val)>>
      ELSE <<Sample(s, i, "read", size, read)>>
RECURSIVE BlockSamples(_, _, _, _)
BlockSamples(s, i, lines, k) ==
  IF k > Len(lines) \/ Len(lines[k]) = 0 THEN <<>>
  ELSE RowSamples(s, i, lines[k]) \o BlockSamples(s, i, lines, k + 1)

\* the names and labels of a list of samples
LabelsOfAll(ms) == [n \in 1..Len(ms) |-> LabelsOf(ms[n])]

\* C24: a histogram file whose first line is the heading of the metric:
\* collect returns, and the context holds for every row of the block two
\* samples (read: field 1, write: field 5) if the row has six fields or
\* more and one read sample if it has one to five, keyed by the size of
\* field 0.
C24_RowSamples ==
  \A w \in WorkerIds, s \in Sources :
    (/\ cpc[w][s] \in {"done", "panic"}
     /\ fsys[s][1].filename = "brw_stats"
     /\ fsys[s][1].lines[1] = <<fsys[s][1].heading>>)
    =>
    LET got == SamplesOfFile(metrics_[w][s], 1)
        want == BlockSamples(s, 1, fsys[s][1].lines, 2)
    IN  /\ cpc[w][s] = "done"
        /\ LabelsOfAll(got) = LabelsOfAll(want)
        /\ \A n \in 1..Len(got) :
             (got[n][3] = "write" \/ Len(fsys[s][1].lines[2]) >= 2) =>
               got[n][5] = want[n][5]

\* the names of operationSlice, and the lines of a stats text whose name
\* is exactly an operation
AllowList == {operationSlice[j] : j \in 1..Len(operationSlice)}
LinesNamed(lines, op) ==
  {k \in 1..Len(lines) : Len(lines[k]) > 0 /\ lines[k][1] = op}

\* C25: a stats file read for the operation counters, every count a
\* number: the context holds a sample with operation op if and only if op
\* is in the allow-list and a line of the file has exactly the name op,
\* and its value is the first number of that line; any other line gives
\* no sample and no error.
C25_OperationAllowList ==
  \A c \in Collected :
    LET f == fsys[c[2]][1]
        got == SamplesOfFile(metrics_[c[1]][c[2]], 1)
    IN  (/\ f.filename = "stats" /\ f.multi
         /\ \A k \in 1..Len(f.lines) : ~ParseFloat(f.lines[k][2]).err)
        =>
        /\ result[c[1]][c[2]] = "success"
        /\ \A n \in 1..Len(got) :
             /\ got[n][3] \in AllowList
             /\ \E k \in LinesNamed(f.lines, got[n][3]) :
                  got[n][5] = ParseFloat(f.lines[k][2]).val
        /\ \A op \in AllowList :
             LinesNamed(f.lines, op) # {} =>
               \E n \in 1..Len(got) : got[n][3] = op

\* jobStatsMultistatParsingStruct and bytesMap: the index of each
\* statistic, the same for read_bytes and write_bytes
StatNames == {"samples", "minimum", "maximum", "total"}
jobStatsMultistatParsingStruct ==
  [samples |-> 0, minimum |-> 1, maximum |-> 2, total |-> 3]
bytesMap == [samples |-> 1, minimum |-> 4, maximum |-> 5, total |-> 6]

\* the numbers N, A, B, C of a job_stats line
\* "{ samples: N, unit: bytes, min: A, max: B, sum: C }" and of a stats
\* line "name N samples [bytes] A B C", by statistic
BraceNumber(nums, stat) ==
  ParseInt(nums[CASE stat = "samples" -> 1 [] stat = "minimum" -> 2
                  [] stat = "maximum" -> 3 [] OTHER -> 4]).val
StatsNumber(line, stat) ==
  ParseFloat(line[CASE stat = "samples" -> 2 [] stat = "minimum" -> 5
                    [] stat = "maximum" -> 6 [] OTHER -> 7]).val

\* C26: for a read_bytes or write_bytes line with N samples, minimum A,
\* maximum B and sum C, the metric of the samples reads N, that of the
\* minimum A, that of the maximum B and that of the total C, for every job
\* of a job_stats file and for the line of a stats file.
C26_IoPositions ==
  \A c \in Collected, stat \in StatNames :
    LET f == fsys[c[2]][1]
        got == SamplesOfFile(metrics_[c[1]][c[2]], 1)
    IN  /\ (/\ f.filename = "job_stats" /\ ~f.multi
             /\ f.pattern \in {"read_bytes", "write_bytes"}
             /\ f.index = jobStatsMultistatParsingStruct[stat])
            =>
            \A b \in ParsedBlocks(f) :
              HasKey(f.blocks[b], f.pattern) =>
                \E n \in 1..Len(got) :
                  /\ got[n][4] = JobIdOf(f.blocks[b])
                  /\ got[n][5] =
                       BraceNumber(LineOf(f.blocks[b], f.pattern).nums, stat)
        /\ (/\ f.filename = "stats" /\ ~f.multi
             /\ f.index = bytesMap[stat]
             /\ f.lines = <<GoodStats>>)
            =>
            got = <<Sample(c[2], 1, "", "", StatsNumber(GoodStats, stat))>>

\* C26, its case: the line write_bytes with samples 10, min 1, max 5 and
\* sum 20, read for the metric of the total, gave 20 for the job
C26_Witness ==
  \E c \in Collected :
    /\ fsys[c[2]][1] =
         JobFile("p1", FALSE, "write_bytes",
                 jobStatsMultistatParsingStruct["total"], <<IoJob>>)
    /\ SamplesOfFile(metrics_[c[1]][c[2]], 1)
         = <<JobSample(c[2], 1, "", "job1", 20)>>

\* the requests whose worker.update has been through every context, and
\* the positions of a source among the observations of a request
Published == {p \in Requests : pc[p] = "update" /\ idx[p] > Len(ctxs[tgt[p]])}
ObsOf(p, s) == {n \in 1..Len(obs[p]) : obs[p][n][1] = s}

\* C27: when a request has published a worker's result, whether it
\* started the worker, attached to it or reused it within the shelf life,
\* it has recorded exactly one observation for each source, labelled
\* "error" if collect() of that source returned an error and "success"
\* otherwise, whatever the other sources of the pass did.
C27_OneObservationPerSource ==
  \A p \in Published :
    /\ Len(obs[p]) = Cardinality(list)
    /\ \A s \in list :
         /\ Cardinality(ObsOf(p, s)) = 1
         /\ \A n \in ObsOf(p, s) :
              obs[p][n][2] =
                IF collect(s, fsys[s]).err THEN "error" ELSE "success"

\* C27, its case: a request that reused a finished pass recorded "error"
\* for the source that failed and "success" for the other
C27_Witness ==
  \E p \in Published :
    /\ made[p] = NoWorker
    /\ inWindow[p]
    /\ \E s \in list, x \in list :
         /\ collect(s, fsys[s]).err
         /\ ~collect(x, fsys[x]).err
         /\ \E n \in ObsOf(p, s) : obs[p][n] = <<s, "error">>
         /\ \E n \in ObsOf(p, x) : obs[p][n] = <<x, "success">>

\* C28: a request that finds MAX_WORKER workers in flight starts no pass:
\* it takes an in-flight worker that none was created after and waits on
\* it; it goes on only when every collect of that worker has ended, and
\* what it then sends is the samples of that worker's contexts.
C28_AtLimitWaitsOnNewest ==
  [][\A p \in Requests :
       /\ (pc[p] = "grwIn" /\ pc'[p] # "grwIn"
              /\ Cardinality(workers) >= MAX_WORKER)
           => /\ pc'[p] = "wait"
              /\ nCreated' = nCreated /\ workers' = workers /\ wpc' = wpc
              /\ tgt'[p] \in workers
              /\ \A v \in workers : ~(creat[tgt'[p]] < creat[v])
       /\ (pc[p] = "wait" /\ made[p] = NoWorker /\ pc'[p] # "wait")
           => /\ \A s \in list : cpc[tgt[p]][s] = "done"
              /\ pc'[p] = "update" /\ tgt'[p] = tgt[p]
       /\ (pc[p] = "update" /\ made[p] = NoWorker /\ idx'[p] # idx[p]
              /\ pc'[p] = "update")
           => /\ tgt'[p] = tgt[p]
              /\ \E s \in CtxOf(tgt[p]) :
                   out'[p] = out[p] \o metrics_[tgt[p]][s]]_vars

\* C28, its case: two workers allowed and two in flight; a request that
\* made no worker has sent all the samples of the one created later, which
\* doneForWorker has not recorded yet
C28_Witness ==
  /\ MAX_WORKER = 2
  /\ \E p \in Requests :
       /\ pc[p] = "update"
       /\ made[p] = NoWorker
       /\ idx[p] > Len(ctxs[tgt[p]])
       /\ wpc[tgt[p]] \notin {"none", "done"}
       /\ out[p] = PassSamples(tgt[p])
       /\ Len(out[p]) = NumFiles
       /\ \E v \in InFlight : creat[v] < creat[tgt[p]]

\* C29: a request that enters getRunnerWorker (it found no pass within
\* the shelf life) with fewer than MAX_WORKER workers in flight creates
\* exactly one worker, whether or not others are in flight, and no request
\* creates a second one; the worker gets one context per source of the
\* list, once, and collect() runs on each context exactly once: a context
\* that has collected, with or without an error, never collects again.
C29_OneWorkerOneCollect ==
  [][/\ \A p \in Requests :
          /\ (pc[p] = "grwIn" /\ pc'[p] # "grwIn"
                 /\ Cardinality(workers) < MAX_WORKER)
              => /\ nCreated' = nCreated + 1
                 /\ workers' = workers \cup {nCreated'}
                 /\ nCreated' \notin workers
                 /\ made'[p] = nCreated' /\ tgt'[p] = nCreated'
                 /\ \A v \in WorkerIds \ {nCreated'} : wpc'[v] = wpc[v]
          /\ (made'[p] # made[p] /\ made'[p] # NoWorker)
              => made[p] = NoWorker
          /\ nCreated' # nCreated => nCreated' = nCreated + 1
     /\ \A w \in WorkerIds :
          /\ ctxs'[w] # ctxs[w]
              => /\ ctxs[w] = <<>>
                 /\ Len(ctxs'[w]) = Cardinality(list)
                 /\ \A s \in list :
                      /\ Cardinality({k \in 1..Len(ctxs'[w]) :
                                        ctxs'[w][k] = s}) = 1
                      /\ cpc[w][s] = "none" /\ cpc'[w][s] = "collect"
          /\ \A s \in Sources :
               /\ cpc'[w][s] # cpc[w][s] =>
                    \/ cpc[w][s] = "none" /\ cpc'[w][s] = "collect"
                    \/ cpc[w][s] = "collect" /\ cpc'[w][s] \in {"done", "panic"}
               /\ (<<result[w][s], metrics_[w][s], fr[w][s]>>
                      # <<result'[w][s], metrics_'[w][s], fr'[w][s]>>
                    /\ rpc'[w] = rpc[w])
                   => cpc[w][s] = "collect" /\ cpc'[w][s] # "collect"]_vars

\* C29, its case: two requests each made a worker, both are in flight,
\* each has one context per source, and in the second every collect has
\* ended, one of them with an error
C29_Witness ==
  /\ workers = {1, 2}
  /\ \E p, q \in Requests : made[p] = 1 /\ made[q] = 2
  /\ \A w \in workers : Len(ctxs[w]) = NumSources /\ CtxOf(w) = list
  /\ \A s \in list : cpc[2][s] = "done"
  /\ \E s \in list : result[2][s] = "error"
  /\ \E s \in list : cpc[1][s] = "collect"

\* every collect of a worker has returned
AllCollected(w) == \A s \in list : cpc[w][s] = "done"

\* C30: a request that waits on, or publishes from, the worker it started,
\* attached to or reused, and every collect of that worker has returned,
\* completes, whatever the other workers do: they may run or never take
\* another step.
C30_BlocksOnlyOnItsWorker ==
  \A p \in Requests :
    (pc[p] \in {"wait", "update"} /\ AllCollected(tgt[p]))
      ~> (pc[p] = "done")

\* C30, its case: the second request has completed with the pass of the
\* second worker while the first worker, on which the first request
\* waits, still has a collect that has not returned
C30_Witness ==
  /\ nCreated = 2
  /\ pc[2] = "done"
  /\ pc[1] = "wait" /\ tgt[1] = 1
  /\ wpc[1] = "wait" /\ wpc[2] # "none"
  /\ \E s \in list : cpc[1][s] = "collect"

\* where the code appends a sample within the samples of its file: the
\* position of its job block and of its key in jobStateKeys, of its row
\* and read before write, or of its operation in operationSlice
BlockPos(f, jobid) ==
  CHOOSE k \in 1..Len(f.blocks) :
    /\ HasJobId(f.blocks[k]) /\ JobIdOf(f.blocks[k]) = jobid
    /\ \A j \in 1..(k - 1) :
         ~(HasJobId(f.blocks[j]) /\ JobIdOf(f.blocks[j]) = jobid)
RowPos(f, size) ==
  CHOOSE k \in 1..Len(f.lines) :
    /\ Len(f.lines[k]) > 1
    /\ convertToBytes(StripColon(f.lines[k][1])) = size
SlicePos(op) ==
  CHOOSE j \in 1..Len(operationSlice) : operationSlice[j] = op
EmissionRank(f, m) ==
  CASE f.filename = "job_stats" ->
         100 * BlockPos(f, m[4]) + (IF f.multi THEN KeyIndex(m[3]) ELSE 0)
    [] f.filename = "brw_stats" ->
         100 * RowPos(f, m[4]) + (IF m[3] = "read" THEN 1 ELSE 2)
    [] f.filename = "stats" /\ f.multi -> SlicePos(m[3])
    [] OTHER -> 0

\* C31: two passes over the same files hold the same sequence of samples
\* for a source, and that sequence is in the order of the files, within a
\* file in the order of its rows (read before write) or of its job blocks,
\* within a job in the order of jobStateKeys, and for the operations of a
\* stats file in the order of operationSlice.
C31_EmissionOrderDeterministic ==
  /\ \A c \in Collected, d \in Collected :
       c[2] = d[2] => metrics_[c[1]][c[2]] = metrics_[d[1]][d[2]]
  /\ \A c \in Collected :
       LET ms == metrics_[c[1]][c[2]]
           fl == fsys[c[2]]
       IN  \A n \in 1..Len(ms), m \in 1..Len(ms) :
             n < m =>
               \/ ms[n][2] < ms[m][2]
               \/ /\ ms[n][2] = ms[m][2]
                  /\ EmissionRank(fl[ms[n][2]], ms[n])
                       < EmissionRank(fl[ms[m][2]], ms[m])

\* C31, its case: two workers have collected the job file with two jobs
\* and the histogram with two rows, and hold the same eight samples, the
\* first job's open first and the write of the second row last
C31_Witness ==
  /\ \A w \in WorkerIds : cpc[w][1] = "done"
  /\ fsys[1][2] = BrwFile(<<GoodRow, BigRow>>)
  /\ metrics_[1][1] = metrics_[2][1]
  /\ Len(metrics_[1][1]) = 8
  /\ metrics_[1][1][1] = JobSample(1, 1, "open", "job1", 1)
  /\ metrics_[1][1][8] = Sample(1, 2, "write", "1048576", 5)

\* C32: when a request starts worker.update on a worker, whether it
\* started it, attached to it or reuses it, the worker's list holds one
\* context per source and every collect has returned; and while a request
\* is in update, the contexts and the samples of its worker do not change.
C32_UpdateAfterAllCollected ==
  [][\A p \in Requests :
       /\ (pc[p] # "update" /\ pc'[p] = "update")
           => LET w == tgt'[p]
              IN  /\ w \in WorkerIds
                  /\ Len(ctxs[w]) = Cardinality(list)
                  /\ CtxOf(w) = list
                  /\ wg[w] = 0
                  /\ \A s \in list : cpc[w][s] = "done"
       /\ pc[p] = "update"
           => /\ ctxs'[tgt[p]] = ctxs[tgt[p]]
              /\ metrics_'[tgt[p]] = metrics_[tgt[p]]
              /\ result'[tgt[p]] = result[tgt[p]]]_vars

\* C32, its case: the request that started the worker and the one that
\* attached to it are both at the start of update, before doneForWorker
\* has recorded the worker, and both contexts have finished
C32_Witness ==
  \E p, q \in Requests :
    /\ pc[p] = "update" /\ pc[q] = "update"
    /\ idx[p] = 1 /\ idx[q] = 1
    /\ made[p] = 1 /\ made[q] = NoWorker
    /\ tgt[p] = 1 /\ tgt[q] = 1
    /\ wpc[1] \notin {"none", "done"}
    /\ Len(ctxs[1]) = NumSources
    /\ \A s \in list : cpc[1][s] = "done"

\* C33: whenever runner.mu is free, r.lastSuccess is nil or a worker that
\* is not in r.workers, whose collects have all returned and whose end is
\* set; and the step that records a worker is the step that removes it.
C33_LastSuccessIsFinished ==
  /\ [](mu = Free =>
          \/ lastSuccess = NoWorker
          \/ /\ lastSuccess \notin workers
             /\ \A s \in list : cpc[lastSuccess][s] = "done"
             /\ wg[lastSuccess] = 0
             /\ wend[lastSuccess] # NoTime)
  /\ [][lastSuccess' # lastSuccess =>
          /\ lastSuccess' \in workers
          /\ workers' = workers \ {lastSuccess'}
          /\ mu = <<"wrk", lastSuccess'>> /\ mu' = Free]_vars

\* C33, its case: the first pass is recorded and no longer in flight
\* while the second is in flight, the mutex free
C33_Witness ==
  /\ mu = Free
  /\ lastSuccess = 1
  /\ workers = {2}
  /\ wend[1] # NoTime
  /\ \E s \in list : cpc[2][s] = "collect"

\* C34: MAX_WORKER is at least 1 whatever the flag was, so a request that
\* takes the at-capacity branch of getRunnerWorker finds r.workers not
\* empty, and every request leaves getRunnerWorker with a worker, never
\* with nil.
C34_NeverNilWorker ==
  /\ [](MAX_WORKER >= 1)
  /\ [][\A p \in Requests :
          (pc[p] = "grwIn" /\ pc'[p] # "grwIn")
          => /\ tgt'[p] \in WorkerIds
             /\ wpc'[tgt'[p]] # "none"
             /\ Cardinality(workers) >= MAX_WORKER => workers # {}]_vars

\* C34, its case: with a limit of one, a request has taken the at-capacity
\* branch and waits on the worker that is in flight
C34_Witness ==
  /\ MAX_WORKER = 1
  /\ workers = {1}
  /\ pc[2] = "wait" /\ tgt[2] = 1 /\ made[2] = NoWorker
  /\ wg[1] > 0

\* what parseJobStatsText stores for a block that is the only one of its
\* text
AloneJob(block) == parseBlocks(<<block>>, 1, ZeroJobState).jobs

\* C35: the job states a context holds for a path are, in order, those
\* the accepted blocks give when each is the only block of its text: what
\* the blocks before it set, or left half-set when they failed, does not
\* show in a job.
C35_NoLeakBetweenBlocks ==
  \A c \in Holding :
    \A i \in 1..Len(fsys[c[2]]) :
      LET f == fsys[c[2]][i]
          ok == SelectSeq(f.blocks, LAMBDA b : AloneJob(b) # <<>>)
      IN  (f.filename = "job_stats" /\ Len(f.blocks) > 0) =>
            filesJobStats[c[1]][c[2]].states[f.path]
              = [k \in 1..Len(ok) |-> AloneJob(ok[k])[1]]

\* C35, its case: after a complete block and a block that failed on its
\* read_bytes line, the job of the third block has no read_bytes, no
\* close, and its own open
C35_Witness ==
  \E c \in Holding :
    /\ fsys[c[2]][1].blocks = <<FullJob, ShortReadJob, NoIoJob>>
    /\ LET jobs == filesJobStats[c[1]][c[2]].states["p1"]
       IN  /\ Len(jobs) = 2
           /\ jobs[2].jobid = "job3"
           /\ jobs[2].readbytes = <<Absent, Absent, Absent, Absent>>
           /\ jobs[2].vals[KeyIndex("close")] = Absent
           /\ jobs[2].vals[KeyIndex("open")] = 2

\* C36: whatever the slices Get returned held when they were put back,
\* the list a context holds for a path has the jobs of the accepted blocks
\* of that path's text, one for each and in their order, and no job of
\* another pass or of another file.
C36_PooledSliceStartsEmpty ==
  \A c \in Holding :
    \A i \in 1..Len(fsys[c[2]]) :
      LET f == fsys[c[2]][i]
      IN  (f.filename = "job_stats" /\ Len(f.blocks) > 0) =>
            LET jobs == filesJobStats[c[1]][c[2]].states[f.path]
            IN  /\ Len(jobs) = Cardinality(ParsedBlocks(f))
                /\ \A k \in 1..Len(jobs) :
                     \E b \in ParsedBlocks(f) :
                       /\ jobs[k].jobid = JobIdOf(f.blocks[b])
                       /\ Cardinality({j \in ParsedBlocks(f) : j < b}) = k - 1

\* C36, its case: the second pass took for the first path the slice the
\* first pass had filled with the job of the second path, and holds for
\* the first path the one job of its text
C36_Witness ==
  /\ cpc[2][1] = "done"
  /\ fsys[1][2] = JobFile("p2", TRUE, "", 0, <<NoIoJob>>)
  /\ relCount[1][1] > 0
  /\ Len(gets[2][1]) = 2
  /\ IdsOfJobs(gets[2][1][1]) = <<"job3">>
  /\ ~filesJobStats[2][1].isNil
  /\ IdsOfJobs(filesJobStats[2][1].states["p1"]) = <<"job1">>

\* C37: release() of a worker's contexts empties the job-state cache and
\* the reader of each and changes no sample list and no result; nothing
\* changes the sample list of a released context afterwards, also when
\* another worker takes the slices it put back; and an update() from a
\* released context appends the whole list of that context to what the
\* request sends and touches neither the pool nor a cache nor a reader.
C37_ReleaseKeepsSamples ==
  [][/\ \A w \in WorkerIds :
          (rpc[w] = "release" /\ rpc'[w] = "done") =>
            /\ metrics_' = metrics_
            /\ result' = result
            /\ \A s \in CtxOf(w) :
                 /\ filesJobStats'[w][s].isNil
                 /\ fr'[w][s] = <<>>
     /\ \A w \in WorkerIds, s \in Sources :
          relCount[w][s] > 0 => metrics_'[w][s] = metrics_[w][s]
     /\ \A p \in Requests :
          (/\ pc[p] = "update"
           /\ idx[p] <= Len(ctxs[tgt[p]])
           /\ idx'[p] = idx[p] + 1
           /\ relCount[tgt[p]][ctxs[tgt[p]][idx[p]]] > 0) =>
            /\ out'[p] = out[p] \o metrics_[tgt[p]][ctxs[tgt[p]][idx[p]]]
            /\ pool' = pool
            /\ filesJobStats' = filesJobStats
            /\ fr' = fr]_vars

\* C37, its case: a request has sent from the released first worker the
\* whole list of its pass, and the second worker has collected into a
\* slice the first worker's release put back
C37_Witness ==
  \E p \in Requests :
    /\ tgt[p] = 1
    /\ relAtUpd[p]
    /\ idx[p] > Len(ctxs[1])
    /\ Len(out[p]) > 0
    /\ out[p] = PassSamples(1)
    /\ cpc[2][1] = "done"
    /\ \E k \in 1..Len(gets[2][1]) : Len(gets[2][1][k]) > 0

\* C38: a request holds the mutex exactly while it is inside
\* getRunnerWorker and a worker exactly while it is inside doneForWorker,
\* so not while a request waits for a worker or sends samples, nor while a
\* collect or a release runs; the holder can always take its step and
\* unlock, and with the mutex free a request at getRunnerWorker and a
\* finished worker at doneForWorker can lock it, whatever the collects,
\* the other requests and the releases are doing.
C38_MutexNotHeldWhileBlocked ==
  /\ \A p \in Requests : (mu = <<"req", p>>) <=> (pc[p] = "grwIn")
  /\ \A w \in WorkerIds : (mu = <<"wrk", w>>) <=> (wpc[w] = "dfwIn")
  /\ Running =>
       /\ \A p \in Requests : pc[p] = "grwIn" => ENABLED GrwBody(p)
       /\ \A w \in WorkerIds : wpc[w] = "dfwIn" => ENABLED DfwBody(w)
       /\ mu = Free =>
            /\ \A w \in WorkerIds :
                 wpc[w] = "dfwLock" => ENABLED DfwLock(w)
            /\ \A p \in Requests :
                 (pc[p] = "grwLock"
                    /\ (AtCapacity(workers) \/ nCreated < MaxPasses))
                   => ENABLED GrwLock(p)

\* C38, its case: the first request waits for the first worker, which has
\* a collect that has not returned; the second request went through
\* getRunnerWorker meanwhile and is sending the samples of the second
\* worker, which has recorded its completion and whose release runs; the
\* mutex is free
C38_Witness ==
  /\ mu = Free
  /\ pc[1] = "wait" /\ tgt[1] = 1
  /\ \E s \in list : cpc[1][s] = "collect"
  /\ pc[2] = "update" /\ tgt[2] = 2 /\ idx[2] <= Len(ctxs[2])
  /\ wpc[2] = "done" /\ lastSuccess = 2 /\ rpc[2] = "release"

\* the sources of a pass whose collect() returned an error
FailedIn(w) == {s \in list : result[w][s] = "error"}

\* C39: a request that arrives within SHELF_LIFE after the end of the last
\* recorded pass, some or all of whose sources failed, is publishing from
\* that pass: it has created no worker, every collect of the pass has
\* returned and none is started again, and when its update is over it has
\* recorded the outcomes of that pass, "error" for each failed source.
C39_FailedPassReused ==
  /\ [](\A p \in Requests :
          (inWindow[p] /\ tgt[p] # NoWorker /\ FailedIn(tgt[p]) # {}) =>
            /\ pc[p] = "update"
            /\ made[p] = NoWorker
            /\ \A s \in list : cpc[tgt[p]][s] = "done"
            /\ idx[p] > Len(ctxs[tgt[p]]) =>
                 /\ Len(obs[p]) = Len(ctxs[tgt[p]])
                 /\ \A k \in 1..Len(obs[p]) :
                      obs[p][k] = <<ctxs[tgt[p]][k],
                                    result[tgt[p]][ctxs[tgt[p]][k]]>>
                 /\ \A s \in FailedIn(tgt[p]) :
                      \E k \in 1..Len(obs[p]) : obs[p][k] = <<s, "error">>)
  /\ [][\A p \in Requests :
          (/\ pc[p] = "readLast" /\ pc'[p] # "readLast"
           /\ lastSuccess # NoWorker
           /\ wend[lastSuccess] <= now[p]
           /\ now[p] <= wend[lastSuccess] + SHELF_LIFE) =>
            /\ pc'[p] = "update"
            /\ tgt'[p] = lastSuccess
            /\ nCreated' = nCreated
            /\ cpc' = cpc /\ result' = result]_vars

\* C39, its case: one pass was ever made and every source of it failed;
\* a request that arrived in its window has recorded "error" for each
\* source and has created nothing
C39_Witness ==
  /\ nCreated = 1
  /\ FailedIn(1) = list
  /\ \E p \in Requests :
       /\ inWindow[p]
       /\ tgt[p] = 1
       /\ made[p] = NoWorker
       /\ idx[p] > Len(ctxs[1])
       /\ \A s \in list : \E k \in 1..Len(obs[p]) : obs[p][k] = <<s, "error">>

=============================================================================
